---- MODULE Spec2Model ----
(***************************************************************************)
(* A model of the TSCH joining-phase simulator                            *)
(* (ieee802154/tsch/joining_phase_simulator.py).                           *)
(*                                                                         *)
(* Times are integers in microseconds.  Python dictionaries are functions  *)
(* whose DOMAIN is the set of keys.  The radio (shadowing, clock drift,    *)
(* channel scan) draws random numbers: every outcome of such a draw is a   *)
(* nondeterministic choice of the action that draws it.                    *)
(***************************************************************************)
EXTENDS Integers, Sequences, FiniteSets, TLC

\* ------------------------------------------------------------------ bounds
\* the driver is followed through multi-slotframes 0..MaxMsf, and through one
\* or two more under ECV and ECH (MsfLimit)
MaxMsf == 1
\* rejoining_attempt calls followed after one execute()
MaxRejoins == 1

\* ------------------------------------------------- the timeslot template
macTsTimeslotLength == 10000
macTsTxOffset == 2120
macTsRxWait == 2200

\* Python's None, for the integer-valued fields that start as None
None == -1

\* ------------------------------------------------------- the dictionaries
EmptyDict == [k \in {} |-> 0]

DictSet(d, k, v) == [x \in (DOMAIN d) \cup {k} |-> IF x = k THEN v ELSE d[x]]

\* ---------------------------------------------------- scheduling methods
EBSchedulingMethod ==
    {"CFASV", "MAC_BASED_AS", "CFASH", "ECFASV", "EMAC_BASED_AS", "ECFASH",
     "ECV", "ECH", "Minimal6TiSCH"}

\* ECV and ECH: the sensing-based methods
IsEC(m) == m \in {"ECV", "ECH"}

\* the methods whose PAN coordinator advertises in every subslot on offset 0
IsEnhanced(m) == m \in {"ECV", "ECH", "ECFASV", "ECFASH", "EMAC_BASED_AS"}

\* ceil(a / b) for a >= 0, b > 0
CeilDiv(a, b) == (a + b - 1) \div b

\* ------------------------------------------------ the constructor's values
\* A configuration c is a record:
\*   method, nodes (ids), pan (id), ffds (ids of the FFDs), sax (id -> hash),
\*   num_channels, slotframe_length, ebi, atp_enabled, boot_time (of the PAN
\*   coordinator), eb_length, data_rate

\* the transmission time of an EB, in microseconds
t_eb(c) == ((c.eb_length * 8 + 48) * 1000000) \div c.data_rate

subslot_length(c) == macTsTxOffset + t_eb(c)

subslots_per_adv_slot(c) ==
    IF c.atp_enabled THEN macTsTimeslotLength \div subslot_length(c) ELSE 1

num_slots_in_ms(c) == c.slotframe_length * c.ebi

num_ffds(c) == Cardinality(c.ffds)

\* the divisor of the number of required advertisement slots
AdvCellsPerSlot(c) ==
    IF c.method \in {"CFASV", "CFASH", "MAC_BASED_AS"}
    THEN c.num_channels * c.ebi * subslots_per_adv_slot(c)
    ELSE (c.num_channels - 1) * c.ebi * subslots_per_adv_slot(c)

\* lines 126-129 counting the PAN coordinator among the FFDs to place
num_required_adv_slots_AllFFDs(c) == CeilDiv(num_ffds(c), AdvCellsPerSlot(c))

num_required_adv_slots(c) ==
    IF c.method \in {"CFASV", "CFASH", "MAC_BASED_AS"}
    THEN CeilDiv(num_ffds(c), AdvCellsPerSlot(c))
    ELSE CeilDiv(num_ffds(c) - 1, AdvCellsPerSlot(c))

\* the positions of the advertisement slots in the multi-slotframe
adv_slots_pos_in_ms(c) ==
    IF c.method \in {"ECV", "ECH", "Minimal6TiSCH"}
    THEN [k \in 1..c.ebi |-> (k - 1) * c.slotframe_length]
    ELSE LET R == num_required_adv_slots(c)
         IN  [k \in 1..(c.ebi * R) |->
                 ((k - 1) \div R) * c.slotframe_length + ((k - 1) % R)]

num_adv_slots_in_ms(c) == Len(adv_slots_pos_in_ms(c))

total_adv_subslots_in_ms(c) == num_adv_slots_in_ms(c) * subslots_per_adv_slot(c)

\* the number of cells the ids are mapped onto by the constructor's check
total_adv_cells(c) ==
    num_required_adv_slots(c) * subslots_per_adv_slot(c) * c.ebi *
        (IF IsEnhanced(c.method) THEN c.num_channels - 1 ELSE c.num_channels)

\* lines 141-152 checking the PAN coordinator's id with the others
CheckedFFDs_All(c) == c.ffds

\* the ids the constructor's one-to-one check runs over
CheckedFFDs(c) ==
    IF IsEnhanced(c.method) THEN c.ffds \ {c.pan} ELSE c.ffds

\* __check_arguments
ArgumentsValid(c) ==
    /\ c.nodes # {}
    /\ c.pan \in c.nodes
    /\ c.slotframe_length > 0
    /\ c.eb_length > 0 /\ c.eb_length <= 127
    /\ c.num_channels > 0
    /\ ~(IsEnhanced(c.method) /\ c.ffds \ {c.pan} # {} /\ c.num_channels = 1)
    /\ c.ebi > 0
    /\ ~(c.method = "Minimal6TiSCH" /\ c.atp_enabled)

\* lines 105 and 132: more advertisement slots required than the slotframe has
TooFewSlots(c) == num_required_adv_slots(c) > c.slotframe_length

\* lines 113-123 and 141-152: two ids of the checked FFDs fall on one cell
IdsCollide(c) ==
    /\ c.method \in {"CFASV", "CFASH", "ECFASV", "ECFASH"}
    /\ \E a, b \in CheckedFFDs(c) :
          a # b /\ a % total_adv_cells(c) = b % total_adv_cells(c)

\* the exceptions of JoiningPhaseSimulator.__init__, with the check that
\* raises NotValidJoiningPhaseSimulatorConfig
NotValidArguments == "NotValidJoiningPhaseSimulatorConfig: arguments"
NotValidSlots == "NotValidJoiningPhaseSimulatorConfig: number of slots"
NotValidIds == "NotValidJoiningPhaseSimulatorConfig: node IDs"
ZeroDivisionError == "ZeroDivisionError"

\* the outcome of JoiningPhaseSimulator.__init__: "ok" or the exception
Constructor(c) ==
    IF ~ArgumentsValid(c) THEN NotValidArguments
    ELSE IF c.method \in {"ECV", "ECH", "Minimal6TiSCH"} THEN "ok"
    ELSE IF AdvCellsPerSlot(c) = 0 THEN ZeroDivisionError
    ELSE IF TooFewSlots(c) THEN NotValidSlots
    ELSE IF IdsCollide(c) THEN NotValidIds
    ELSE "ok"

\* ------------------------------------------------------ the allocators
\* channel offsets available to the nodes other than the PAN coordinator
num_avail_ch_offsets(c, enhanced_version) ==
    IF enhanced_version THEN c.num_channels - 1 ELSE c.num_channels

\* __cfasv_allocate_adv_cell: the cell <<adv_subslot_idx, ch_offset>> of id
cfasv_allocate_adv_cell(c, id, enhanced_version) ==
    LET n == num_avail_ch_offsets(c, enhanced_version)
        adv_cell_idx == id % (total_adv_subslots_in_ms(c) * n)
    IN  << adv_cell_idx \div n,
           (adv_cell_idx % n) + (IF enhanced_version THEN 1 ELSE 0) >>

\* __cfash_allocate_adv_cell
cfash_allocate_adv_cell(c, id, enhanced_version) ==
    LET n == num_avail_ch_offsets(c, enhanced_version)
        adv_cell_idx == id % (total_adv_subslots_in_ms(c) * n)
    IN  << adv_cell_idx % total_adv_subslots_in_ms(c),
           (adv_cell_idx \div total_adv_subslots_in_ms(c))
               + (IF enhanced_version THEN 1 ELSE 0) >>

\* ---- the SAX hash of a MAC address (lines 596-609).  Python's integers do
\* not overflow: a number is held as <<high, low>>, low below 2^24
Limb == 2 ^ 24

RECURSIVE XorInt(_, _)
\* bitwise exclusive or of two naturals
XorInt(x, y) ==
    IF x = 0 THEN y
    ELSE IF y = 0 THEN x
    ELSE 2 * XorInt(x \div 2, y \div 2) + ((x + y) % 2)

BitsOfByte(b) == << 0, b >>

ShiftLeft5(x) == << x[1] * 32 + (x[2] * 32) \div Limb, (x[2] * 32) % Limb >>

ShiftRight2(x) == << x[1] \div 4, (x[2] \div 4) + (x[1] % 4) * (Limb \div 4) >>

BitXor(x, y) == << XorInt(x[1], y[1]), XorInt(x[2], y[2]) >>

BitAdd(x, y) == << x[1] + y[1] + (x[2] + y[2]) \div Limb, (x[2] + y[2]) % Limb >>

\* one turn of the loop of line 603
SaxStep(hash_value, byte) ==
    BitXor(hash_value,
           BitAdd(BitAdd(ShiftLeft5(hash_value), ShiftRight2(hash_value)),
                  BitsOfByte(byte)))

RECURSIVE SaxOver(_, _)
SaxOver(hash_value, bytes) ==
    IF bytes = << >> THEN hash_value
    ELSE SaxOver(SaxStep(hash_value, Head(bytes)), Tail(bytes))

\* the bytes the loops of lines 602-603 visit: netaddr gives the six octets of
\* the address as its words, and divmod(word, 0x100) is <<0, word>> for an octet
RECURSIVE SaxBytes(_)
SaxBytes(octets) ==
    IF octets = << >> THEN << >>
    ELSE << Head(octets) \div 256, Head(octets) % 256 >> \o SaxBytes(Tail(octets))

\* sax(mac_addr) & 0xFFFF for the address 00-8c-fa-<suffix>
sax(suffix) ==
    SaxOver(BitsOfByte(0), SaxBytes(<<0, 140, 250>> \o suffix))[2] % 65536

\* __mbas_allocate_adv_cell, on the SAX hash of the node's MAC address
mbas_allocate_adv_cell(c, id, enhanced_version) ==
    LET n == num_avail_ch_offsets(c, enhanced_version)
        adv_cell_idx == c.sax[id] % (n * total_adv_subslots_in_ms(c))
    IN  << adv_cell_idx \div n,
           (adv_cell_idx % n) + (IF enhanced_version THEN 1 ELSE 0) >>

\* lines 494-495 under every method: the slot of a new advertiser is drawn
JoinCells_Drawn(c, id) == {<<s, 0>> : s \in 0..(num_adv_slots_in_ms(c) - 1)}

\* the cells a node that has just captured an EB may be given at once
\* (lines 477-495); none under ECV/ECH, where the node starts sensing
JoinCells(c, id) ==
    CASE c.method = "CFASV" -> {cfasv_allocate_adv_cell(c, id, FALSE)}
      [] c.method = "MAC_BASED_AS" -> {mbas_allocate_adv_cell(c, id, FALSE)}
      [] c.method = "CFASH" -> {cfash_allocate_adv_cell(c, id, FALSE)}
      [] c.method = "ECFASV" -> {cfasv_allocate_adv_cell(c, id, TRUE)}
      [] c.method = "EMAC_BASED_AS" -> {mbas_allocate_adv_cell(c, id, TRUE)}
      [] c.method = "ECFASH" -> {cfash_allocate_adv_cell(c, id, TRUE)}
      [] c.method = "Minimal6TiSCH" ->
            {<<s, 0>> : s \in 0..(num_adv_slots_in_ms(c) - 1)}
      [] OTHER -> {}

\* __make_scheduling_for_the_pan_coordinator: the PAN coordinator's dictionary
PanSchedule(c) ==
    CASE c.method = "Minimal6TiSCH" -> DictSet(EmptyDict, 0, 0)
      [] c.method = "CFASV" ->
            LET cell == cfasv_allocate_adv_cell(c, c.pan, FALSE)
            IN  DictSet(EmptyDict, cell[1], cell[2])
      [] c.method = "MAC_BASED_AS" ->
            LET cell == mbas_allocate_adv_cell(c, c.pan, FALSE)
            IN  DictSet(EmptyDict, cell[1], cell[2])
      [] c.method = "CFASH" ->
            LET cell == cfash_allocate_adv_cell(c, c.pan, FALSE)
            IN  DictSet(EmptyDict, cell[1], cell[2])
      [] OTHER -> [s \in 0..(total_adv_subslots_in_ms(c) - 1) |-> 0]

\* lines 392-401 with the branches of lines 393 and 398 exchanged
NextCell_Swapped(c, s, ch) ==
    IF c.method = "ECH"
    THEN IF ch = c.num_channels - 1 THEN <<s + 1, 1>> ELSE <<s, ch + 1>>
    ELSE IF s = total_adv_subslots_in_ms(c) - 1 THEN <<0, ch + 1>>
         ELSE <<s + 1, ch>>

\* lines 392-401 keeping the node on the cell it sensed
NextCell_Same(c, s, ch) == <<s, ch>>

\* the cell a sensing node moves to when it finds <<s, ch>> busy (lines 392-401)
NextCell(c, s, ch) ==
    IF c.method = "ECV"
    THEN IF ch = c.num_channels - 1 THEN <<s + 1, 1>> ELSE <<s, ch + 1>>
    ELSE IF s = total_adv_subslots_in_ms(c) - 1 THEN <<0, ch + 1>>
         ELSE <<s + 1, ch>>

\* the last cell of the walk (lines 390-391)
IsLastCell(c, s, ch) ==
    s = total_adv_subslots_in_ms(c) - 1 /\ ch = c.num_channels - 1

\* ------------------------------------------------------------- the state
VARIABLES
    cfg,                    \* the constructor's arguments and the node group
    time,                   \* NodeGroup.__time
    has_the_execute_func_been_called,
    allocated_ch_offset,    \* FFD -> (adv_subslot_idx -> channel offset)
    joined_nodes,
    advertisers,
    unjoined_nodes,
    sync_asn,               \* node -> asn of its first synchronization
    EB_tx_counter,
    formation_asn,
    scan_start_time,
    sensing_nodes,          \* <<adv_subslot_idx, ch_offset>> -> set of nodes
    num_slots_sensed,
    multislotframe_idx,
    pc,                     \* "new" (not constructed), "failed", "idle",
                            \* "loop" (top of a subslot) or "scan"
    call,                   \* the call that runs or has returned last
    target,                 \* the node of the rejoining_attempt, or None
    start_time,             \* rejoining_attempt's start_time, or None
    i, j, starting_i, starting_j,
    network_formation_time,
    new_joined_nodes,
    new_advertisers,
    pending,                \* unjoined nodes the loop of line 416 has not reached
    result,                 \* what the last call returned
    rejoins,                \* rejoining_attempt calls since execute()
    raised,                 \* the exception the last call ended with, or "none"
    \* history, read by the properties only
    fallback_at,            \* node -> serial of the subslot that drew its cell
    eb_sources,             \* advertisers with a candidate EB in this subslot
    alloc_since,            \* FFD -> (adv_subslot_idx -> serial of the write)
    last_capture_end,       \* end of the subslot of the last capture, or None
    sensed_cells,           \* FFD -> the cells it sensed since it last joined
                            \* or left, each with the answer it got
    counted_advertisers,    \* advertisers whose counter grew in this subslot
    before_call,            \* the fields as they were when the last
                            \* rejoining_attempt began
    first_subslot,          \* serial of the first subslot the call processed
    last_subslot            \* serial of the last subslot the call processed

sim_vars ==
    << allocated_ch_offset, joined_nodes, advertisers, unjoined_nodes, sync_asn,
       EB_tx_counter, formation_asn, scan_start_time, sensing_nodes,
       num_slots_sensed, multislotframe_idx >>

loop_vars ==
    << pc, i, j, starting_i, starting_j, network_formation_time,
       new_joined_nodes, new_advertisers, pending >>

hist_vars ==
    << fallback_at, eb_sources, alloc_since, last_capture_end, sensed_cells,
       counted_advertisers >>

call_vars == << raised, before_call, first_subslot, last_subslot >>

\* the JoiningPhaseSimulator, its driver and the histories
driver_vars ==
    << cfg, time, has_the_execute_func_been_called, sim_vars, loop_vars, call,
       target, start_time, result, rejoins, hist_vars, call_vars >>

VARIABLES
    move,                   \* Node.__move of the mobile node of the group
    position,               \* what Node.position returned last for it, or << >>
    queried_at              \* the network time of that call, or None

mob_vars == << move, position, queried_at >>

VARIABLES
    group,                  \* a NodeGroup: nodes, pan_coordinator, num_ffds, macs_in_use
    attempt,                \* the last creation attempt on it and the group before it
    attributes,             \* the dictionary given to TimeslotTemplate(...)
    template,               \* what TimeslotTemplate(...) did with it, or "none"
    hop,                    \* the last call of __channel_calculation, or NoHop
    scenario,               \* the arguments and the draws of a call of __captured_eb
    capture                 \* what the call did with the candidates, or NoCapture

grp_vars == << group, attempt >>

tpl_vars == << attributes, template >>

hop_vars == << hop >>

cap_vars == << scenario, capture >>

lib_vars == << grp_vars, tpl_vars, hop_vars, cap_vars >>

vars == << driver_vars, mob_vars, lib_vars >>

\* --------------------------------------------------- the configurations
NodeIds == {0, 1, 2}
EbLengths == {50}
DataRates == {250000}
ChannelCounts == {1, 2}
\* ECV and ECH also with three channels, where their walks differ
ChannelCountsOf(m) == IF IsEC(m) THEN ChannelCounts \cup {3} ELSE ChannelCounts
SlotframeLengths == {2}
\* ebi, ATP and the boot time of the PAN coordinator (microseconds)
GridChoices ==
    { [ebi |-> 1, atp_enabled |-> FALSE, boot_time |-> 0],
      [ebi |-> 2, atp_enabled |-> FALSE, boot_time |-> 0],
      [ebi |-> 1, atp_enabled |-> TRUE, boot_time |-> 0],
      [ebi |-> 1, atp_enabled |-> FALSE, boot_time |-> 13000] }
\* the random suffixes NodeGroup.___assign_mac_addr gave the nodes
MacTables ==
    { [n \in NodeIds |-> <<0, 0, n>>], [n \in NodeIds |-> <<18, 52, 86 + n>>] }

\* Node.boot_time: the nodes other than the PAN coordinator boot at time 0
BootTimeOf(c, n) == IF n = c.pan THEN c.boot_time ELSE 0

\* the hashes of the addresses of a table
SaxTable == [mac \in MacTables |-> [n \in NodeIds |-> sax(mac[n])]]

\* the tables followed under a method: both where the addresses are read
MacTablesOf(m) ==
    IF m \in {"MAC_BASED_AS", "EMAC_BASED_AS"} THEN MacTables
    ELSE {[n \in NodeIds |-> <<0, 0, n>>]}

ConfigurationsOf(m) ==
    { [ method |-> m, nodes |-> 0..k, pan |-> p, ffds |-> f,
        sax |-> SaxTable[mac],
        num_channels |-> nc, slotframe_length |-> sl,
        ebi |-> g.ebi, atp_enabled |-> g.atp_enabled, boot_time |-> g.boot_time,
        eb_length |-> el, data_rate |-> dr, mobile |-> -1 ] :
        k \in NodeIds, p \in NodeIds,
        f \in SUBSET NodeIds, mac \in MacTablesOf(m), nc \in ChannelCountsOf(m),
        sl \in SlotframeLengths, g \in GridChoices, el \in EbLengths,
        dr \in DataRates }

\* the groups followed: the PAN coordinator is any node of a group of one or
\* two nodes, and the node of id 0 in a group of three
PanIdsOf(nodes) == 0..(Cardinality(NodeIds) - Cardinality(nodes))

\* the node groups NodeGroup, Node and PANCoordinator can build
GroupValid(c) == c.pan \in c.ffds /\ c.ffds \subseteq c.nodes

\* the configurations constructed: those of the groups followed, and every
\* configuration the constructor refuses whichever node is the PAN coordinator;
\* three channels where the multi-slotframe has more than one subslot, since
\* the walks of ECV and ECH over one subslot are the same
Configurations ==
    {c \in UNION {ConfigurationsOf(m) : m \in EBSchedulingMethod} :
        /\ \/ c.pan \in PanIdsOf(c.nodes)
           \/ GroupValid(c) /\ Constructor(c) # "ok"
        /\ c.num_channels \in ChannelCounts \/ c.ebi > 1 \/ c.atp_enabled}

\* ------------------------------------------------------- a mobile node
\* NodeGroupProperties.area_dimensions, in micrometres (0.05 m x 0.05 m)
area_dimensions == <<50000, 50000>>

\* Node.__initial_position of the mobile node
initial_position == <<0, 0>>

\* the speeds __new_move draws (lines 266-269), in micrometres per microsecond
\* (m/s): between MIN_SPEED and MAX_SPEED
Speeds == {1, 5}

\* Node.__move of a node that is not mobile
NoMove == << >>

\* the end positions __new_move draws (lines 261-264) that are followed, for
\* random() = 0.0 and random() = 0.5: the other points of coordinates 0 and
\* half the dimension on the row or on the column of the start position,
\* where the formulas of Node.position are exact in integers
EndPositions(start_pos) ==
    { <<(area_dimensions[1] \div 2) - start_pos[1], start_pos[2]>>,
      <<start_pos[1], (area_dimensions[2] \div 2) - start_pos[2]>> }

\* Node.__new_move (lines 257-284): the moves it can define
new_move(start_pos, start_t) ==
    { [start_pos |-> start_pos, start_t |-> start_t, end_pos |-> e, speed |-> v] :
        e \in EndPositions(start_pos), v \in Speeds }

Abs(x) == IF x < 0 THEN -x ELSE x

\* line 138, for two points of a row or of a column
total_distance(mv) ==
    Abs(mv.end_pos[1] - mv.start_pos[1]) + Abs(mv.end_pos[2] - mv.start_pos[2])

\* lines 139-140: the distance from the start of the move at time t
DistanceCovered(mv, t) == mv.speed * (t - mv.start_t)

\* lines 135-148: the moves Node.__move can hold when the loop ends
RECURSIVE CurrentMoves(_, _)
CurrentMoves(mv, t) ==
    IF DistanceCovered(mv, t) > total_distance(mv)
    THEN UNION { CurrentMoves(nm, t) :
                    nm \in new_move(mv.end_pos,
                                    mv.start_t + (total_distance(mv) \div mv.speed)) }
    ELSE {mv}

\* lines 150-170
PointOfMove(mv, t) ==
    LET d == DistanceCovered(mv, t)
        x0 == mv.start_pos[1]
        y0 == mv.start_pos[2]
        x1 == mv.end_pos[1]
        y1 == mv.end_pos[2]
    IN  IF x0 = x1
        THEN <<x0, IF y0 < y1 THEN y0 + d ELSE y0 - d>>
        ELSE <<IF x0 < x1 THEN x0 + d ELSE x0 - d, y0>>

\* the groups with a mobile node: node 1, an RFD, beside the PAN coordinator
MobileConfigurations ==
    { [c EXCEPT !.mobile = 1] :
        c \in { x \in ConfigurationsOf("CFASV") \cup ConfigurationsOf("Minimal6TiSCH") :
                  /\ x.nodes = 0..1 /\ x.pan = 0 /\ x.ffds = {0}
                  /\ x.num_channels = 1 /\ ~x.atp_enabled } }

\* ------------------------------------------------ values read by the loop
NumAdvSlots == num_adv_slots_in_ms(cfg)
SubslotsPerSlot == subslots_per_adv_slot(cfg)
TotalSubslots == total_adv_subslots_in_ms(cfg)
slot_0_start_time == cfg.boot_time

\* the last multi-slotframe followed: MaxMsf, one more under ECV and ECH,
\* where a new advertiser senses its first cell a multi-slotframe after it
\* joined, and one more again under ECV with three channels, where the second
\* cell of a walk is sensed a multi-slotframe after the first
MsfLimit ==
    IF ~IsEC(cfg.method) \/ cfg.num_channels < 2 THEN MaxMsf
    ELSE IF cfg.method = "ECV" /\ cfg.num_channels > 2 THEN MaxMsf + 2
    ELSE MaxMsf + 1

\* line 357
asn == multislotframe_idx * num_slots_in_ms(cfg) + adv_slots_pos_in_ms(cfg)[i + 1]

\* line 360
adv_subslot_idx == i * SubslotsPerSlot + j

\* lines 417-419
current_adv_subslot_start_time ==
    slot_0_start_time + asn * macTsTimeslotLength + j * subslot_length(cfg)

\* lines 506-508 and 517-519
current_adv_subslot_end_time ==
    slot_0_start_time + asn * macTsTimeslotLength + (j + 1) * subslot_length(cfg)

\* the number of the current subslot among the subslots of all multi-slotframes
Serial == (multislotframe_idx * NumAdvSlots + i) * SubslotsPerSlot + j

\* line 514
AllSensingSetsEmpty == \A cell \in DOMAIN sensing_nodes : sensing_nodes[cell] = {}

\* the fields copied when a rejoining_attempt begins
Snapshot ==
    [ joined_nodes |-> joined_nodes, advertisers |-> advertisers,
      unjoined_nodes |-> unjoined_nodes,
      allocated_ch_offset |-> allocated_ch_offset,
      scan_start_time |-> scan_start_time,
      num_slots_sensed |-> num_slots_sensed,
      multislotframe_idx |-> multislotframe_idx, time |-> time ]

\* a node group with its nodes (NodeGroup.__init__, line 62: time 0), before
\* the simulator is constructed
DriverInit ==
    /\ time = 0
    /\ has_the_execute_func_been_called = FALSE
    /\ allocated_ch_offset = EmptyDict
    /\ joined_nodes = {}
    /\ advertisers = {}
    /\ unjoined_nodes = {}
    /\ sync_asn = EmptyDict
    /\ EB_tx_counter = EmptyDict
    /\ formation_asn = None
    /\ scan_start_time = EmptyDict
    /\ sensing_nodes = EmptyDict
    /\ num_slots_sensed = EmptyDict
    /\ multislotframe_idx = 0
    /\ pc = "new"
    /\ call = "none"
    /\ target = None
    /\ start_time = None
    /\ i = 0 /\ j = 0 /\ starting_i = 0 /\ starting_j = 0
    /\ network_formation_time = None
    /\ new_joined_nodes = {}
    /\ new_advertisers = {}
    /\ pending = {}
    /\ result = None
    /\ rejoins = 0
    /\ fallback_at = EmptyDict
    /\ eb_sources = {}
    /\ alloc_since = EmptyDict
    /\ last_capture_end = None
    /\ sensed_cells = EmptyDict
    /\ counted_advertisers = {}
    /\ raised = "none"
    /\ before_call = << >>
    /\ first_subslot = None
    /\ last_subslot = None

\* ------------------------------------------- the node group and its nodes
MaxGroupSize == 2
MacPool == 0..3
NodeTypes == {"FFD", "RFD"}
\* arguments of Node(...) that pass every check of the constructor but the
\* search for the id in the group
ValidNodeArgs ==
    [id : 0..2, position : {<<0, 0>>, <<50000, 50000>>}, is_mobile : BOOLEAN,
     type : NodeTypes, boot_time : {0}, channel_switching_time : {0}]

\* the same with one argument that a check refuses: a negative id, a position
\* outside the area, a type that is not a NodeType, a negative Timedelta
InvalidNodeArgs ==
    LET base == [id |-> 1, position |-> <<0, 0>>, is_mobile |-> FALSE,
                 type |-> "FFD", boot_time |-> 0, channel_switching_time |-> 0]
    IN  {[base EXCEPT !.id = -1], [base EXCEPT !.position = <<50001, 0>>],
         [base EXCEPT !.position = <<0, 50001>>],
         [base EXCEPT !.position = <<-1, 0>>], [base EXCEPT !.position = <<0, -1>>],
         [base EXCEPT !.type = "other"], [base EXCEPT !.boot_time = -1],
         [base EXCEPT !.channel_switching_time = -1]}

NodeArgs == ValidNodeArgs \cup InvalidNodeArgs

\* NodeGroup.__init__ (node_group.py, lines 59-64)
EmptyGroup ==
    [nodes |-> << >>, pan_coordinator |-> None, num_ffds |-> 0,
     macs_in_use |-> << >>]

NoAttempt ==
    [kind |-> "none", id |-> None, valid |-> TRUE, raised |-> "none",
     before |-> EmptyGroup]

\* the chain of checks of Node.__init__ (node.py, lines 49-90)
NodeArgsValid(a) ==
    /\ a.id >= 0
    /\ a.position[1] >= 0
    /\ a.position[2] >= 0
    /\ a.position[1] <= area_dimensions[1]
    /\ a.position[2] <= area_dimensions[2]
    /\ a.type \in NodeTypes
    /\ a.boot_time >= 0
    /\ a.channel_switching_time >= 0

\* the loop of Node.__init__ over the group's nodes (node.py, lines 107-110)
IdInGroup(g, id) == \E k \in 1..Len(g.nodes) : g.nodes[k].id = id

\* the addresses NodeGroup.___assign_mac_addr can draw (node_group.py, 127-134)
FreeMacs(g) ==
    {m \in MacPool : \A k \in 1..Len(g.macs_in_use) : g.macs_in_use[k] # m}

\* NodeGroup.__add_node and ___assign_mac_addr (node_group.py, lines 74-78,
\* 127-137)
add_node(g, node, mac) ==
    [g EXCEPT !.nodes = Append(@, [node EXCEPT !.mac_address = mac]),
              !.macs_in_use = Append(@, mac),
              !.num_ffds = IF node.type = "FFD" THEN @ + 1 ELSE @]

\* the object Node.__init__ fills in (node.py, lines 92-100)
NodeObject(a, class) ==
    [id |-> a.id, type |-> a.type, is_mobile |-> a.is_mobile,
     class |-> class, mac_address |-> None]

\* Node.__init__ without the search for the id in the group
NodeInit_AnyId(g, a, class, mac) ==
    IF ~NodeArgsValid(a)
    THEN [raised |-> "NotValidNodeConfigError", group |-> g]
    ELSE [raised |-> "none", group |-> add_node(g, NodeObject(a, class), mac)]

\* Node.__init__ (node.py, lines 49-113): the group after the call and what
\* the call raised
NodeInit(g, a, class, mac) ==
    IF ~NodeArgsValid(a) \/ IdInGroup(g, a.id)
    THEN [raised |-> "NotValidNodeConfigError", group |-> g]
    ELSE [raised |-> "none", group |-> add_node(g, NodeObject(a, class), mac)]

\* PANCoordinator.__init__ without the test of the group's PAN coordinator
PANCoordinatorInit_Always(g, a, mac) ==
    LET made == NodeInit(g, [a EXCEPT !.is_mobile = FALSE, !.type = "FFD"],
                         "PANCoordinator", mac)
    IN  IF made.raised = "none"
        THEN [made EXCEPT !.group.pan_coordinator = Len(made.group.nodes)]
        ELSE made

\* PANCoordinator.__init__ (pan_coordinator.py, lines 30-42); the registered
\* PAN coordinator is kept as its place in the list of nodes
PANCoordinatorInit(g, a, mac) ==
    IF g.pan_coordinator = None
    THEN LET made == NodeInit(g, [a EXCEPT !.is_mobile = FALSE, !.type = "FFD"],
                              "PANCoordinator", mac)
         IN  IF made.raised = "none"
             THEN [made EXCEPT !.group.pan_coordinator = Len(made.group.nodes)]
             ELSE made
    ELSE [raised |-> "PANCoordinatorCreationError", group |-> g]

\* Node(...) is called on the group
CreateNode(a, mac) ==
    /\ Len(group.nodes) < MaxGroupSize
    /\ mac \in FreeMacs(group)
    /\ group' = NodeInit(group, a, "Node", mac).group
    /\ attempt' = [kind |-> "Node", id |-> a.id, valid |-> NodeArgsValid(a),
                   raised |-> NodeInit(group, a, "Node", mac).raised,
                   before |-> group]
    /\ UNCHANGED << driver_vars, mob_vars, tpl_vars, hop_vars, cap_vars >>

\* PANCoordinator(...) is called on the group
CreatePANCoordinator(a, mac) ==
    /\ Len(group.nodes) < MaxGroupSize \/ group.pan_coordinator # None
    /\ mac \in FreeMacs(group)
    /\ group' = PANCoordinatorInit(group, a, mac).group
    /\ attempt' = [kind |-> "PANCoordinator", id |-> a.id,
                   valid |-> NodeArgsValid([a EXCEPT !.type = "FFD"]),
                   raised |-> PANCoordinatorInit(group, a, mac).raised,
                   before |-> group]
    /\ UNCHANGED << driver_vars, mob_vars, tpl_vars, hop_vars, cap_vars >>

\* ------------------------------------------------- the timeslot template
AttributeNames ==
    {"macTsCcaOffset", "macTsCca", "macTsRxTx", "macTsTxOffset", "macTsMaxTx",
     "macTsRxOffset", "macTsRxWait", "macTsRxAckDelay", "macTsTxAckDelay",
     "macTsAckWait", "macTsMaxAck", "macTsTimeslotLength"}

\* the attributes of defaultTimeslotTemplateFor2450MHzBand
\* (timeslot_template.py, lines 177-190)
DefaultAttributes ==
    [n \in AttributeNames |->
        CASE n = "macTsCcaOffset" -> 1800
          [] n = "macTsCca" -> 128
          [] n = "macTsTxOffset" -> macTsTxOffset
          [] n = "macTsRxOffset" -> 1020
          [] n = "macTsRxAckDelay" -> 800
          [] n = "macTsTxAckDelay" -> 1000
          [] n = "macTsRxWait" -> macTsRxWait
          [] n = "macTsRxTx" -> 192
          [] n = "macTsMaxAck" -> 2400
          [] n = "macTsMaxTx" -> 4256
          [] n = "macTsTimeslotLength" -> macTsTimeslotLength
          [] n = "macTsAckWait" -> 400]

\* a template of small durations in which the two equalities hold and the
\* inequalities on the acknowledgment and on the timeslot length are tight
TightAttributes ==
    [n \in AttributeNames |->
        CASE n = "macTsTxOffset" -> 3
          [] n \in {"macTsRxOffset", "macTsRxWait"} -> 2
          [] n = "macTsTimeslotLength" -> 6
          [] OTHER -> 1]

Deltas == {-1, 0, 1}

\* TightAttributes with up to three attributes moved by one microsecond
NearTight ==
    {[n \in AttributeNames |->
         TightAttributes[n] + (IF n = n1 THEN d1 ELSE 0)
                            + (IF n = n2 /\ n2 # n1 THEN d2 ELSE 0)
                            + (IF n = n3 /\ n3 # n1 /\ n3 # n2 THEN d3 ELSE 0)] :
       n1 \in AttributeNames, n2 \in AttributeNames, n3 \in AttributeNames,
       d1 \in Deltas, d2 \in Deltas, d3 \in Deltas}

\* DefaultAttributes with one attribute at or beyond an end of 0..65535
NearDefault ==
    {[DefaultAttributes EXCEPT ![n] = v] :
       n \in AttributeNames, v \in {-1, 0, 65535, 65536}}
      \cup {DefaultAttributes}

\* the dictionaries given to TimeslotTemplate(...): the values of the twelve
\* attributes, the attribute given as a float of the same value (or "none")
\* and the number of entries under other names
TemplateInputs ==
    [values : NearTight \cup NearDefault, as_float : {"none"}, unknown : {0, 1}]
      \cup [values : {TightAttributes, DefaultAttributes},
            as_float : AttributeNames, unknown : {0}]

\* Timedelta(value, unit="us"), in nanoseconds
Timedelta_us(value) == value * 1000

\* a Timedelta halved to whole microseconds
Half_WholeMicroseconds(td) == ((td \div 1000) \div 2) * 1000

\* Timedelta / 2: the quotient has nanosecond resolution, so half of a whole
\* number of microseconds is exact
Half(td) == td \div 2

\* TimeslotTemplate.__init__ (timeslot_template.py, lines 9-66)
TimeslotTemplateInit(a) ==
    LET mac_ts_cca_offset == Timedelta_us(a.values["macTsCcaOffset"])
        mac_ts_cca == Timedelta_us(a.values["macTsCca"])
        mac_ts_rx_tx == Timedelta_us(a.values["macTsRxTx"])
        mac_ts_tx_offset == Timedelta_us(a.values["macTsTxOffset"])
        mac_ts_max_tx == Timedelta_us(a.values["macTsMaxTx"])
        mac_ts_rx_offset == Timedelta_us(a.values["macTsRxOffset"])
        mac_ts_rx_wait == Timedelta_us(a.values["macTsRxWait"])
        mac_ts_rx_ack_delay == Timedelta_us(a.values["macTsRxAckDelay"])
        mac_ts_tx_ack_delay == Timedelta_us(a.values["macTsTxAckDelay"])
        mac_ts_ack_wait == Timedelta_us(a.values["macTsAckWait"])
        mac_ts_max_ack == Timedelta_us(a.values["macTsMaxAck"])
        mac_ts_timeslot_length == Timedelta_us(a.values["macTsTimeslotLength"])
    IN  IF Cardinality(AttributeNames) + a.unknown > 12
        THEN "NotValidTimeslotTemplateError"
        ELSE IF \E name \in AttributeNames :
                   \/ a.as_float = name
                   \/ a.values[name] < 0
                   \/ a.values[name] > 65535
        THEN "NotValidTimeslotTemplateError"
        ELSE IF \/ mac_ts_tx_offset # mac_ts_cca_offset + mac_ts_cca + mac_ts_rx_tx
                \/ mac_ts_tx_offset # mac_ts_rx_offset + Half(mac_ts_rx_wait)
                \/ mac_ts_rx_ack_delay > mac_ts_tx_ack_delay
                \/ mac_ts_rx_ack_delay + mac_ts_ack_wait <= mac_ts_tx_ack_delay
                \/ mac_ts_tx_offset + mac_ts_max_tx + mac_ts_rx_ack_delay
                      + mac_ts_ack_wait > mac_ts_timeslot_length
                \/ mac_ts_tx_offset + mac_ts_max_tx + mac_ts_tx_ack_delay
                      + mac_ts_max_ack > mac_ts_timeslot_length
                \/ mac_ts_rx_offset + mac_ts_rx_wait + mac_ts_max_tx
                      + mac_ts_tx_ack_delay + mac_ts_max_ack
                      > mac_ts_timeslot_length + mac_ts_cca_offset
                \/ Half(mac_ts_rx_wait)
                      > mac_ts_rx_offset + mac_ts_timeslot_length - mac_ts_tx_offset
                        - mac_ts_max_tx - mac_ts_tx_ack_delay - mac_ts_max_ack
        THEN "NotValidTimeslotTemplateError"
        ELSE "ok"

\* TimeslotTemplate(attributes) is called
CreateTemplate ==
    /\ template = "none"
    /\ template' = TimeslotTemplateInit(attributes)
    /\ UNCHANGED << attributes, driver_vars, mob_vars, grp_vars, hop_vars, cap_vars >>

\* ------------------------------------------------------ channel hopping
\* the serial subslot numbers, counted on through the whole multi-slotframe
ssn_Running(c) == [k \in 1..total_adv_subslots_in_ms(c) |-> k - 1]

\* lines 171-185: self.__ssn after the slots 0..last of the loop of line 176
RECURSIVE SsnUpTo(_, _)
SsnUpTo(c, last) ==
    IF last = 0
    THEN [k \in 1..subslots_per_adv_slot(c) |-> k - 1]
    ELSE LET before == SsnUpTo(c, last - 1)
             pos == adv_slots_pos_in_ms(c)
             next_ssn == IF pos[last] \div c.slotframe_length
                                = pos[last + 1] \div c.slotframe_length
                         THEN before[Len(before)] + 1
                         ELSE 0
         IN  before \o [k \in 1..subslots_per_adv_slot(c) |-> next_ssn + k - 1]

\* self.__ssn (lines 171-185), defined with more than one subslot per slot
ssn(c) == SsnUpTo(c, num_adv_slots_in_ms(c) - 1)

\* __channel_calculation (lines 656-660); s is None or a serial subslot number
channel_calculation(c, ch_offset, a, s) ==
    IF s # None THEN (a + s + ch_offset) % c.num_channels
    ELSE (a + ch_offset) % c.num_channels

NoHop ==
    [multislotframe_idx |-> None, adv_subslot_idx |-> None, asn |-> None,
     ssn |-> None, ch_offset |-> None, channel |-> None]

\* the channel of the cell (adv_subslot_idx, ch_offset) in the multi-slotframe
\* m, as the driver computes it (lines 357, 360-361, 777)
ChannelOfCell(m, idx, ch_offset) ==
    /\ LET a == m * num_slots_in_ms(cfg)
                  + adv_slots_pos_in_ms(cfg)[(idx \div SubslotsPerSlot) + 1]
           s == IF SubslotsPerSlot > 1 THEN ssn(cfg)[idx + 1] ELSE None
       IN  hop' = [multislotframe_idx |-> m, adv_subslot_idx |-> idx, asn |-> a,
                   ssn |-> s, ch_offset |-> ch_offset,
                   channel |-> channel_calculation(cfg, ch_offset, a, s)]
    /\ UNCHANGED << driver_vars, mob_vars, grp_vars, tpl_vars, cap_vars >>

\* ------------------------------------------------- the capture of an EB
\* In this part the times are in nanoseconds, the resolution of a Timedelta,
\* and a received power is kept in milliwatts (dbm_to_mw of the rx_power).
MaxCandidates == 2

\* self.__t_eb (line 78) for an EB of 50 bytes at 250 kbit/s
t_eb_ns == (((50 * 8 + 48) * 1000000) \div 250000) * 1000

\* SHR_DURATION (line 698) at 250 kbit/s
SHR_DURATION == ((5 * 8 * 1000000) \div 250000) * 1000

\* rx_power - mw_to_dbm(interference) < CAPTURE_EFFECT_THRESHOLD (line 699):
\* the ratio of the powers is below 10 ^ 0.3
BelowCaptureThreshold(power, interference) ==
    power * 100000 < 199526 * interference

\* the candidate EBs of a subslot: reception start, power, channel offset
CandidatesOf(nc) ==
    [rx_start_time : {0, 100000, 200000, 2200000}, rx_power : {1, 2},
     tx_channel_offset : 0..(nc - 1)]

CandidateLists(nc) ==
    UNION {[1..n -> CandidatesOf(nc)] : n \in 1..MaxCandidates}

\* a call of __captured_eb: the joining node's boot_time, scan start and
\* channel switching time, the simulator's scan duration and channels, the
\* subslot's asn and ssn, the candidates in the order of the advertisers, and
\* the drawn clock drift in millionths (lines 741-743).  The scan starts at
\* the boot, or at the start of a rejoining attempt (line 315), which falls
\* up to macTsTxOffset + macTsRxWait / 2 into the subslot that is resumed
\* (line 301), after its earliest transmissions
Scenarios ==
    UNION {[boot_time : {0, 100000}, scan_offset : {0, 100000, 1900000},
            channel_switching_time : {0, 207997}, scan_duration : {1992003},
            num_channels : {nc}, asn : {0, 1}, ssn : {None},
            drift : {-30, 0, 30}, candidate_ebs : CandidateLists(nc)] :
           nc \in 1..2}

\* self.__scan_start_time[joining_node]: the boot time, or a later rejoining
ScanStartOf(sc) == sc.boot_time + sc.scan_offset

\* list.sort(key=rx_start_time) (line 737), which keeps the order of equals
RECURSIVE SortedByRxStart(_)
SortedByRxStart(ebs) ==
    IF Len(ebs) <= 1 THEN ebs
    ELSE LET front == SortedByRxStart(SubSeq(ebs, 1, Len(ebs) - 1))
             last == ebs[Len(ebs)]
             keep == Cardinality({k \in 1..Len(front) :
                                     front[k].rx_start_time <= last.rx_start_time})
         IN  SubSeq(front, 1, keep) \o << last >>
                \o SubSeq(front, keep + 1, Len(front))

\* the arrival time on the joining node's clock, the drift left out
eb_local_arrival_time_NoDrift(rx_start_time, drift) == rx_start_time

\* lines 756-758, an exact product for the times followed
eb_local_arrival_time(rx_start_time, drift) ==
    rx_start_time + (rx_start_time * drift) \div 1000000

\* the state of the loop of __captured_eb (lines 700-704), and which
\* candidates were given to add_interfering_eb or held as the captured EB;
\* the candidates are named by their place in the sorted list
NoCapture ==
    [captured_eb |-> 0, interfering_ebs |-> << >>, interference |-> << >>,
     frame_sync_end_time |-> None, returned |-> FALSE, seen |-> 0,
     added |-> {}, held |-> {}]

StartOfCapture(sc) ==
    [NoCapture EXCEPT
        !.interfering_ebs = [c \in 0..(sc.num_channels - 1) |-> {}],
        !.interference = [c \in 0..(sc.num_channels - 1) |-> 0]]

\* add_interfering_eb (lines 712-714)
add_interfering_eb(st, ebs, k) ==
    [st EXCEPT !.interfering_ebs[ebs[k].tx_channel_offset] = @ \cup {k},
               !.interference[ebs[k].tx_channel_offset] = @ + ebs[k].rx_power,
               !.added = @ \cup {k}]

\* update_interfering_ebs (lines 716-732): the EBs that ended before
\* update_time leave the list and the interference of the channel offset
update_interfering_ebs(st, ebs, ch_offset, update_time) ==
    LET left == {k \in st.interfering_ebs[ch_offset] :
                    ebs[k].rx_start_time + t_eb_ns < update_time}
        SumPower[S \in SUBSET left] ==
            IF S = {} THEN 0
            ELSE LET k == CHOOSE x \in S : TRUE
                 IN  ebs[k].rx_power + SumPower[S \ {k}]
    IN  [st EXCEPT !.interfering_ebs[ch_offset] = @ \ left,
                   !.interference[ch_offset] =
                       IF st.interfering_ebs[ch_offset] \ left = {} THEN 0
                       ELSE @ - SumPower[left]]

\* lines 777-816: the candidate k arrives on the channel the node listens to
OnListeningChannel(st0, ebs, k) ==
    LET eb == ebs[k]
        st == update_interfering_ebs(st0, ebs, eb.tx_channel_offset, eb.rx_start_time)
    IN  IF st.captured_eb = 0
        THEN IF st.interference[eb.tx_channel_offset] = 0
             THEN [st EXCEPT !.captured_eb = k, !.held = @ \cup {k},
                             !.frame_sync_end_time = eb.rx_start_time + SHR_DURATION]
             ELSE IF \/ /\ st.frame_sync_end_time # None
                        /\ st.frame_sync_end_time < eb.rx_start_time
                     \/ BelowCaptureThreshold(eb.rx_power,
                                              st.interference[eb.tx_channel_offset])
             THEN add_interfering_eb(st, ebs, k)
             ELSE [st EXCEPT !.captured_eb = k, !.held = @ \cup {k},
                             !.frame_sync_end_time =
                                 IF @ = None THEN eb.rx_start_time + SHR_DURATION
                                 ELSE @]
        ELSE IF BelowCaptureThreshold(
                    ebs[st.captured_eb].rx_power,
                    st.interference[ebs[st.captured_eb].tx_channel_offset]
                       + eb.rx_power)
        THEN LET lost == [add_interfering_eb(st, ebs, st.captured_eb)
                             EXCEPT !.captured_eb = 0]
             IN  IF \/ lost.frame_sync_end_time < eb.rx_start_time
                    \/ BelowCaptureThreshold(eb.rx_power,
                                             lost.interference[eb.tx_channel_offset])
                 THEN add_interfering_eb(lost, ebs, k)
                 ELSE [lost EXCEPT !.captured_eb = k, !.held = @ \cup {k}]
        ELSE st

\* one pass of the loop of lines 745-818 over the candidate k
CandidateStep(sc, ebs, st, k) ==
    LET eb == ebs[k]
        seen == [st EXCEPT !.seen = k]
        arrival == eb_local_arrival_time(eb.rx_start_time, sc.drift)
        since == arrival - ScanStartOf(sc)
        period == sc.scan_duration + sc.channel_switching_time
    IN  IF st.returned THEN st
        ELSE IF /\ st.captured_eb # 0
                /\ ebs[st.captured_eb].rx_start_time + t_eb_ns < eb.rx_start_time
        THEN [st EXCEPT !.returned = TRUE]
        ELSE IF sc.boot_time > eb.rx_start_time
        THEN add_interfering_eb(seen, ebs, k)
        ELSE IF ~(sc.scan_duration > (since % period) + t_eb_ns)
        THEN add_interfering_eb(seen, ebs, k)
        ELSE IF (since \div period) % sc.num_channels
                    = channel_calculation(sc, eb.tx_channel_offset, sc.asn, sc.ssn)
        THEN OnListeningChannel(seen, ebs, k)
        ELSE add_interfering_eb(seen, ebs, k)

RECURSIVE CaptureAfter(_, _, _)
CaptureAfter(sc, ebs, k) ==
    IF k = 0 THEN StartOfCapture(sc)
    ELSE CandidateStep(sc, ebs, CaptureAfter(sc, ebs, k - 1), k)

\* __captured_eb (lines 691-820): the loop's state at the return; the EB
\* returned is captured_eb, 0 for None
captured_eb(sc) ==
    LET ebs == SortedByRxStart(sc.candidate_ebs)
    IN  CaptureAfter(sc, ebs, Len(ebs))

\* __captured_eb is called (line 461), which needs a candidate
CapturedEb ==
    /\ capture = NoCapture
    /\ capture' = captured_eb(scenario)
    /\ UNCHANGED << scenario, driver_vars, mob_vars, grp_vars, tpl_vars, hop_vars >>

\* a subslot without candidates, before any call
NoScenario ==
    [boot_time |-> 0, scan_offset |-> 0, channel_switching_time |-> 0,
     scan_duration |-> 1992003, num_channels |-> 1, asn |-> 0, ssn |-> None,
     drift |-> 0, candidate_ebs |-> << >>]

\* a new group, and the template of the module
GroupInit ==
    /\ group = EmptyGroup
    /\ attempt = NoAttempt

TemplateInit ==
    /\ attributes = [values |-> DefaultAttributes, as_float |-> "none", unknown |-> 0]
    /\ template = TimeslotTemplateInit(attributes)

LibInit ==
    /\ GroupInit
    /\ TemplateInit
    /\ hop = NoHop
    /\ scenario = NoScenario
    /\ capture = NoCapture

\* a group without mobile nodes
Init ==
    /\ cfg \in {c \in Configurations : GroupValid(c)}
    /\ DriverInit
    /\ move = NoMove
    /\ position = << >>
    /\ queried_at = None
    /\ LibInit

\* JoiningPhaseSimulator.__init__ (lines 62-187): the checks, and the network
\* time set to the PAN coordinator's boot time (lines 160-161)
Construct ==
    /\ pc = "new"
    /\ call' = "__init__"
    /\ IF Constructor(cfg) = "ok"
       THEN /\ pc' = "idle"
            /\ raised' = "none"
            /\ time' = cfg.boot_time
       ELSE /\ pc' = "failed"
            /\ raised' = Constructor(cfg)
            /\ UNCHANGED time
    /\ UNCHANGED << lib_vars, mob_vars, cfg, has_the_execute_func_been_called, sim_vars, i, j,
                    starting_i, starting_j, network_formation_time,
                    new_joined_nodes, new_advertisers, pending, target,
                    start_time, result, rejoins, hist_vars, before_call,
                    first_subslot, last_subslot >>

\* ------------------------------------------------------------- execute()
\* lines 199-234, up to the call of __run_simulation
Execute ==
    /\ pc = "idle"
    /\ allocated_ch_offset' =
          [n \in cfg.ffds |-> IF n = cfg.pan THEN PanSchedule(cfg) ELSE EmptyDict]
    /\ joined_nodes' = {cfg.pan}
    /\ advertisers' = {cfg.pan}
    /\ unjoined_nodes' = cfg.nodes \ {cfg.pan}
    /\ sync_asn' = DictSet(EmptyDict, cfg.pan, 0)
    /\ EB_tx_counter' = DictSet(EmptyDict, cfg.pan, 0)
    /\ formation_asn' = None
    /\ scan_start_time' = [n \in cfg.nodes \ {cfg.pan} |-> BootTimeOf(cfg, n)]
    /\ sensing_nodes' =
          IF IsEC(cfg.method)
          THEN [cell \in (0..(TotalSubslots - 1)) \X (1..(cfg.num_channels - 1))
                   |-> {}]
          ELSE EmptyDict
    /\ num_slots_sensed' =
          IF IsEC(cfg.method) THEN [n \in cfg.ffds |-> 0] ELSE EmptyDict
    /\ multislotframe_idx' = 0
    /\ has_the_execute_func_been_called' = TRUE
    \* __run_simulation(0), lines 349-351
    /\ starting_i' = 0 /\ starting_j' = 0 /\ i' = 0 /\ j' = 0
    /\ network_formation_time' = None
    /\ new_joined_nodes' = {} /\ new_advertisers' = {} /\ pending' = {}
    /\ pc' = "loop"
    /\ call' = "execute"
    /\ target' = None /\ start_time' = None
    /\ result' = None
    /\ rejoins' = 0
    /\ fallback_at' = EmptyDict
    /\ eb_sources' = {}
    /\ alloc_since' =
          [n \in cfg.ffds |->
              IF n = cfg.pan
              THEN [s \in DOMAIN PanSchedule(cfg) |-> -1]
              ELSE EmptyDict]
    /\ last_capture_end' = None
    /\ sensed_cells' =
          IF IsEC(cfg.method) THEN [n \in cfg.ffds |-> << >>] ELSE EmptyDict
    /\ counted_advertisers' = {}
    /\ raised' = "none"
    /\ before_call' = << >>
    /\ first_subslot' = None
    /\ last_subslot' = None
    /\ UNCHANGED << lib_vars, mob_vars, cfg, time >>

\* ------------------------------------------ one subslot: counters, sensing
\* lines 364-367: the advertisers whose EB_tx_counter grows in this subslot
CountedAdvertisers ==
    {a \in advertisers : adv_subslot_idx \in DOMAIN allocated_ch_offset[a]}

\* the nodes that sense a cell of the current subslot (line 374)
SensingNow ==
    IF IsEC(cfg.method)
    THEN UNION {sensing_nodes[<<adv_subslot_idx, ch>>] :
                    ch \in 1..(cfg.num_channels - 1)}
    ELSE {}

\* the channel offset a node of SensingNow senses
SensedChOffset(n) ==
    CHOOSE ch \in 1..(cfg.num_channels - 1) :
        n \in sensing_nodes[<<adv_subslot_idx, ch>>]

\* __is_a_neighbor_transmitting can answer True: another advertiser holds the
\* cell (whether its signal reaches the observer is the radio's draw)
CellHeldByOther(observer, s, ch) ==
    \E a \in advertisers \ {observer} :
        /\ s \in DOMAIN allocated_ch_offset[a]
        /\ allocated_ch_offset[a][s] = ch

\* lines 364-411.  A sensing node holds no cell, so the per-offset passes of
\* line 373 do not influence each other and are taken together.
\* the sets of the cells of the current subslot while the loop of lines
\* 373-409 runs (sensing), those put aside for the cells of this subslot in
\* sensing_nodes_new (new), and how many times line 378 counted each node
StartOfPass ==
    [sensing |-> [ch \in 1..(cfg.num_channels - 1) |->
                     sensing_nodes[<<adv_subslot_idx, ch>>]],
     new |-> EmptyDict,
     count |-> [n \in DOMAIN num_slots_sensed |-> 0]]

\* the nodes that sensed a cell busy written to self.__sensing_nodes at once
KeepBusyNodes_AtOnce(st, cell, nodes) ==
    IF cell[1] = adv_subslot_idx
    THEN [st EXCEPT !.sensing[cell[2]] = nodes]
    ELSE st

\* lines 392-401: the nodes that sensed a cell busy are kept in
\* sensing_nodes_new under their next cell, here when it is a cell of the
\* current subslot
KeepBusyNodes(st, cell, nodes) ==
    IF cell[1] = adv_subslot_idx
    THEN [st EXCEPT !.new = DictSet(@, cell[2], nodes)]
    ELSE st

\* lines 373-409 for the channel offsets 1..ch, the nodes of busy being
\* those for which __is_a_neighbor_transmitting answers True
RECURSIVE PassUpTo(_, _)
PassUpTo(busy, ch) ==
    IF ch = 0 THEN StartOfPass
    ELSE LET st == PassUpTo(busy, ch - 1)
             nodes_sense_ch == st.sensing[ch]
             nodes_sense_ch_busy == nodes_sense_ch \cap busy
             counted ==
                 [st EXCEPT !.count = [n \in DOMAIN @ |->
                                          IF n \in nodes_sense_ch
                                          THEN @[n] + 1 ELSE @[n]],
                            !.sensing[ch] = {}]
         IN  IF ~IsLastCell(cfg, adv_subslot_idx, ch)
             THEN KeepBusyNodes(counted, NextCell(cfg, adv_subslot_idx, ch),
                                nodes_sense_ch_busy)
             ELSE counted

\* how many times the pass over the current subslot counts each node
EvaluationsInPass(busy) ==
    IF IsEC(cfg.method)
    THEN PassUpTo(busy, cfg.num_channels - 1).count
    ELSE [n \in DOMAIN num_slots_sensed |-> 0]

\* lines 410-411 run before line 388: the sets of the current subslot are
\* emptied after sensing_nodes_new has been copied
SensingNodesAfterPass_CleanedLast(busy) ==
    [cell \in DOMAIN sensing_nodes |->
        IF cell[1] = adv_subslot_idx THEN {}
        ELSE IF \E ch \in 1..(cfg.num_channels - 1) :
                   /\ ~IsLastCell(cfg, adv_subslot_idx, ch)
                   /\ NextCell(cfg, adv_subslot_idx, ch) = cell
        THEN {n \in busy :
                NextCell(cfg, adv_subslot_idx, SensedChOffset(n)) = cell}
        ELSE sensing_nodes[cell]]

\* self.__sensing_nodes after the pass: line 388 empties the sets of the
\* current subslot, and lines 410-411 then assign to each next cell of
\* sensing_nodes_new the nodes that sensed the cell before it busy, in place
\* of what the set of that cell held
SensingNodesAfterPass(busy) ==
    [cell \in DOMAIN sensing_nodes |->
        IF \E ch \in 1..(cfg.num_channels - 1) :
              /\ ~IsLastCell(cfg, adv_subslot_idx, ch)
              /\ NextCell(cfg, adv_subslot_idx, ch) = cell
        THEN {n \in busy :
                NextCell(cfg, adv_subslot_idx, SensedChOffset(n)) = cell}
        ELSE IF cell[1] = adv_subslot_idx THEN {}
        ELSE sensing_nodes[cell]]

SubslotTx ==
    /\ pc = "loop"
    /\ i < NumAdvSlots
    /\ j < SubslotsPerSlot
    /\ EB_tx_counter' =
          [a \in DOMAIN EB_tx_counter |->
              IF a \in CountedAdvertisers
              THEN EB_tx_counter[a] + 1 ELSE EB_tx_counter[a]]
    /\ \E busy \in SUBSET {n \in SensingNow :
                             CellHeldByOther(n, adv_subslot_idx, SensedChOffset(n))} :
          LET free == SensingNow \ busy
              lastBusy == {n \in busy :
                             IsLastCell(cfg, adv_subslot_idx, SensedChOffset(n))}
          IN  \E fb \in [lastBusy ->
                           (0..(TotalSubslots - 1)) \X (1..(cfg.num_channels - 1))] :
                /\ allocated_ch_offset' =
                      [n \in DOMAIN allocated_ch_offset |->
                          IF n \in free
                          THEN DictSet(allocated_ch_offset[n], adv_subslot_idx,
                                       SensedChOffset(n))
                          ELSE IF n \in lastBusy
                          THEN DictSet(allocated_ch_offset[n], fb[n][1], fb[n][2])
                          ELSE allocated_ch_offset[n]]
                /\ alloc_since' =
                      [n \in DOMAIN alloc_since |->
                          IF n \in free
                          THEN DictSet(alloc_since[n], adv_subslot_idx, Serial)
                          ELSE IF n \in lastBusy
                          THEN DictSet(alloc_since[n], fb[n][1], Serial)
                          ELSE alloc_since[n]]
                /\ fallback_at' =
                      [n \in (DOMAIN fallback_at) \cup lastBusy |->
                          IF n \in lastBusy THEN Serial ELSE fallback_at[n]]
                /\ sensing_nodes' = SensingNodesAfterPass(busy)
                /\ LET evaluations == EvaluationsInPass(busy)
                   IN  num_slots_sensed' =
                          [n \in DOMAIN num_slots_sensed |->
                              num_slots_sensed[n] + evaluations[n]]
                /\ sensed_cells' =
                      [n \in DOMAIN sensed_cells |->
                          IF n \in SensingNow
                          THEN Append(sensed_cells[n],
                                      [cell |-> <<adv_subslot_idx, SensedChOffset(n)>>,
                                       busy |-> n \in busy])
                          ELSE sensed_cells[n]]
    /\ counted_advertisers' = CountedAdvertisers
    /\ first_subslot' = IF first_subslot = None THEN Serial ELSE first_subslot
    /\ last_subslot' = Serial
    \* lines 413-416
    /\ new_joined_nodes' = {}
    /\ new_advertisers' = {}
    /\ pending' = unjoined_nodes
    /\ eb_sources' = {}
    /\ pc' = "scan"
    /\ UNCHANGED << lib_vars, mob_vars, cfg, time, has_the_execute_func_been_called, joined_nodes,
                    advertisers, unjoined_nodes, sync_asn, formation_asn,
                    scan_start_time, multislotframe_idx, call, target, start_time,
                    i, j, starting_i, starting_j, network_formation_time, result,
                    rejoins, last_capture_end, raised, before_call >>

\* --------------------------------------- one subslot: the capture attempts
\* line 432 reading the advertisers promoted in the current subslot as well
CandidateAdvertisers_WithNew == advertisers \cup new_advertisers

\* line 432: the advertisers whose EBs may reach a scanning node
CandidateAdvertisers == advertisers

\* lines 432-435: those of them that transmit in the current subslot
TransmittingAdvertisers ==
    {a \in CandidateAdvertisers : adv_subslot_idx \in DOMAIN allocated_ch_offset[a]}

\* lines 471-472 recording the slot after the capture
SyncAsnAfterCapture_Late(n) ==
    IF n \in DOMAIN sync_asn THEN sync_asn ELSE DictSet(sync_asn, n, asn + 1)

\* line 476 starting the counter at one
CounterAfterCapture_One(n) == DictSet(EB_tx_counter, n, 1)

\* lines 471-472 without the test of line 471
SyncAsnAfterCapture_Always(n) == DictSet(sync_asn, n, asn)

\* lines 471-472
SyncAsnAfterCapture(n) ==
    IF n \in DOMAIN sync_asn THEN sync_asn ELSE DictSet(sync_asn, n, asn)

\* line 476
CounterAfterCapture(n) == DictSet(EB_tx_counter, n, 0)

\* lines 437-439 and 456: Node.position of the mobile node is read when an
\* advertiser transmits in the subslot and the mobile node is the advertiser
\* or the scanning node
PositionQueried(n) ==
    /\ cfg.mobile # None
    /\ TransmittingAdvertisers # {}
    /\ cfg.mobile = n \/ cfg.mobile \in TransmittingAdvertisers

\* lines 416-497, for one node of the loop of line 416.  heard: the advertisers
\* whose signal reaches the node (line 443); captured: whether __captured_eb
\* returns one of their EBs; cell: the cell drawn or computed for a new FFD.
ScanNode(n) ==
    /\ pc = "scan"
    /\ n \in pending
    /\ time' = current_adv_subslot_start_time + macTsTxOffset
    /\ IF PositionQueried(n)
       THEN /\ queried_at' = time'
            /\ IF BootTimeOf(cfg, cfg.mobile) > time'
               THEN position' = initial_position /\ UNCHANGED move
               ELSE /\ move' \in CurrentMoves(move, time')
                    /\ position' = PointOfMove(move', time')
       ELSE UNCHANGED mob_vars
    /\ pending' = pending \ {n}
    /\ \E heard \in SUBSET TransmittingAdvertisers, captured \in BOOLEAN :
          /\ captured => heard # {}
          /\ eb_sources' = eb_sources \cup heard
          /\ sensed_cells' =
                IF captured /\ n \in cfg.ffds /\ IsEC(cfg.method)
                THEN [sensed_cells EXCEPT ![n] = << >>]
                ELSE sensed_cells
          /\ IF ~captured
             THEN UNCHANGED << new_joined_nodes, new_advertisers, sync_asn,
                               EB_tx_counter, allocated_ch_offset, sensing_nodes,
                               alloc_since, last_capture_end >>
             ELSE /\ new_joined_nodes' = new_joined_nodes \cup {n}
                  /\ sync_asn' = SyncAsnAfterCapture(n)
                  /\ last_capture_end' = current_adv_subslot_end_time
                  /\ IF n \notin cfg.ffds
                     THEN UNCHANGED << new_advertisers, EB_tx_counter,
                                       allocated_ch_offset, sensing_nodes,
                                       alloc_since >>
                     ELSE /\ new_advertisers' = new_advertisers \cup {n}
                          /\ EB_tx_counter' = CounterAfterCapture(n)
                          /\ IF IsEC(cfg.method)
                             THEN /\ sensing_nodes' =
                                        [sensing_nodes EXCEPT ![<<0, 1>>] = @ \cup {n}]
                                  /\ UNCHANGED << allocated_ch_offset, alloc_since >>
                             ELSE /\ \E cell \in JoinCells(cfg, n) :
                                        /\ allocated_ch_offset' =
                                              [allocated_ch_offset EXCEPT ![n] =
                                                  DictSet(@, cell[1], cell[2])]
                                        /\ alloc_since' =
                                              [alloc_since EXCEPT ![n] =
                                                  DictSet(@, cell[1], Serial)]
                                  /\ UNCHANGED sensing_nodes
    /\ UNCHANGED << lib_vars, cfg, has_the_execute_func_been_called, joined_nodes,
                    advertisers, unjoined_nodes, formation_asn, scan_start_time,
                    num_slots_sensed, multislotframe_idx, call, target,
                    start_time, i, j, starting_i, starting_j,
                    network_formation_time, result, rejoins, pc,
                    fallback_at, counted_advertisers, call_vars >>

\* ----------------------------------------------- one subslot: its end
\* lines 504-508 without the test of line 504
FormationTimeAtEnd_Overwritten == current_adv_subslot_end_time

\* lines 504-508: the value of network_formation_time once nobody is unjoined
FormationTimeAtEnd ==
    IF network_formation_time = None
    THEN current_adv_subslot_end_time ELSE network_formation_time

\* lines 512-515: whether the run returns once nobody is unjoined
ReturnsNow == ~IsEC(cfg.method) \/ AllSensingSetsEmpty

\* line 324 with the operands of the subtraction exchanged
Returned_Swapped(finish_time) ==
    IF call = "execute" THEN finish_time ELSE start_time - finish_time

\* what the call returns: execute()'s total_time, rejoining_attempt's
\* joining_time (line 324)
Returned(finish_time) ==
    IF call = "execute" THEN finish_time ELSE finish_time - start_time

\* line 499 left out: the nodes that captured an EB are not recorded as joined
JoinedAfterSubslot_Forgotten == joined_nodes

\* line 499
JoinedAfterSubslot == joined_nodes \cup new_joined_nodes

\* line 500
AdvertisersAfterSubslot == advertisers \cup new_advertisers

\* line 501
UnjoinedAfterSubslot == unjoined_nodes \ new_joined_nodes

\* lines 521-522
FormationAsnAtReturn == IF formation_asn = None THEN asn ELSE formation_asn

\* lines 499-525, and the step of the loop of line 359
SubslotEnd ==
    /\ pc = "scan"
    /\ pending = {}
    /\ joined_nodes' = JoinedAfterSubslot
    /\ advertisers' = AdvertisersAfterSubslot
    /\ unjoined_nodes' = UnjoinedAfterSubslot
    /\ new_joined_nodes' = {}
    /\ new_advertisers' = {}
    /\ eb_sources' = {}
    /\ counted_advertisers' = {}
    /\ network_formation_time' =
          IF unjoined_nodes' = {} THEN FormationTimeAtEnd
          ELSE network_formation_time
    /\ IF unjoined_nodes' = {} /\ ReturnsNow
       THEN /\ time' = current_adv_subslot_end_time
            /\ formation_asn' = FormationAsnAtReturn
            /\ result' = Returned(FormationTimeAtEnd)
            /\ pc' = "idle"
            /\ UNCHANGED j
       ELSE /\ j' = j + 1
            /\ pc' = "loop"
            /\ UNCHANGED << time, formation_asn, result >>
    /\ UNCHANGED << lib_vars, mob_vars, cfg, has_the_execute_func_been_called, allocated_ch_offset,
                    sync_asn, EB_tx_counter, scan_start_time, sensing_nodes,
                    num_slots_sensed, multislotframe_idx, call, target,
                    start_time, pending, rejoins, fallback_at, alloc_since,
                    last_capture_end, sensed_cells, i, starting_i, starting_j,
                    call_vars >>

\* line 527 and the step of the loop of line 354
\* the starting subslot kept for the advertisement slots that follow
StartingJAfterSlot_Kept == starting_j

\* line 527: the starting subslot of the advertisement slots that follow
StartingJAfterSlot == 0

\* lines 359 and 527: the subslots of the slot are over
NextAdvSlot ==
    /\ pc = "loop"
    /\ i < NumAdvSlots
    /\ j >= SubslotsPerSlot
    /\ starting_j' = StartingJAfterSlot
    /\ i' = i + 1
    /\ j' = starting_j'
    /\ UNCHANGED << lib_vars, mob_vars, cfg, time, has_the_execute_func_been_called, sim_vars, pc,
                    starting_i, network_formation_time, new_joined_nodes,
                    new_advertisers, pending, call, target, start_time, result,
                    rejoins, hist_vars, call_vars >>

\* lines 529-530 and the next turn of the loop of line 353
NextMultislotframe ==
    /\ pc = "loop"
    /\ i >= NumAdvSlots
    /\ multislotframe_idx < MsfLimit
    /\ starting_i' = 0
    /\ multislotframe_idx' = multislotframe_idx + 1
    /\ i' = 0
    /\ j' = starting_j
    /\ UNCHANGED << lib_vars, mob_vars, cfg, time, has_the_execute_func_been_called,
                    allocated_ch_offset, joined_nodes, advertisers, unjoined_nodes,
                    sync_asn, EB_tx_counter, formation_asn, scan_start_time,
                    sensing_nodes, num_slots_sensed, pc, starting_j,
                    network_formation_time, new_joined_nodes, new_advertisers,
                    pending, call, target, start_time, result, rejoins, hist_vars,
                    call_vars >>

\* ---------------------------------------------------- rejoining_attempt
\* offsets (microseconds) a caller passes as start_time_offset
RejoinOffsets == {0, 4000, 7000}

\* line 277
multislotframe_length == num_slots_in_ms(cfg) * macTsTimeslotLength

\* bisect_left(adv_slots_pos_in_ms, rsn), line 287
bisect_left(seq, x) == Cardinality({k \in 1..Len(seq) : seq[k] < x})

\* lines 279-313: <<multislotframe_idx, adv_subslot_idx>> of the resumed subslot
ResumePoint(start) ==
    LET msf0 == start \div multislotframe_length
        time_offset_in_ms == start % multislotframe_length
        rsn == time_offset_in_ms \div macTsTimeslotLength
        temp == bisect_left(adv_slots_pos_in_ms(cfg), rsn)
        adv_slot_idx == IF temp = NumAdvSlots THEN 0 ELSE temp
        in_slot == time_offset_in_ms % macTsTimeslotLength
        subslot_pos == in_slot \div subslot_length(cfg)
        time_elapsed == in_slot % subslot_length(cfg)
        next_slot == (adv_slot_idx + 1) % NumAdvSlots
    IN  IF adv_slots_pos_in_ms(cfg)[adv_slot_idx + 1] = rsn
        THEN IF 2 * time_elapsed <= 2 * macTsTxOffset + macTsRxWait
             THEN << msf0, adv_slot_idx * SubslotsPerSlot + subslot_pos >>
             ELSE IF subslot_pos < SubslotsPerSlot - 1
             THEN << msf0, adv_slot_idx * SubslotsPerSlot + subslot_pos + 1 >>
             ELSE << IF next_slot = 0 THEN msf0 + 1 ELSE msf0,
                     next_slot * SubslotsPerSlot >>
        ELSE << IF adv_slot_idx = 0 THEN msf0 + 1 ELSE msf0,
                adv_slot_idx * SubslotsPerSlot >>

\* line 270 left out: the detached node stays an advertiser
AdvertisersAfterDetach_Kept(n) == advertisers

\* line 270
AdvertisersAfterDetach(n) == advertisers \ {n}

\* lines 272-273 clearing the cells of every FFD but the PAN coordinator
ScheduleAfterDetach_Others(n) ==
    [m \in DOMAIN allocated_ch_offset |->
        IF m = cfg.pan /\ m # n THEN allocated_ch_offset[m] ELSE EmptyDict]

\* lines 272-273
ScheduleAfterDetach(n) ==
    IF n \in cfg.ffds
    THEN [allocated_ch_offset EXCEPT ![n] = EmptyDict]
    ELSE allocated_ch_offset

\* lines 259-316, up to the loop of __run_simulation, for a node of the group
Rejoin(n, start_time_offset) ==
    /\ pc = "idle"
    /\ has_the_execute_func_been_called
    /\ n \in joined_nodes
    /\ NumAdvSlots > 0
    /\ LET start == time + start_time_offset
           resume == ResumePoint(start)
       IN  /\ resume[1] <= MsfLimit
           /\ multislotframe_idx' = resume[1]
           /\ starting_i' = resume[2] \div SubslotsPerSlot
           /\ starting_j' = resume[2] % SubslotsPerSlot
           /\ i' = starting_i'
           /\ j' = starting_j'
           /\ start_time' = start
           /\ scan_start_time' = DictSet(scan_start_time, n, start)
    /\ joined_nodes' = joined_nodes \ {n}
    /\ advertisers' = AdvertisersAfterDetach(n)
    /\ allocated_ch_offset' = ScheduleAfterDetach(n)
    /\ unjoined_nodes' = unjoined_nodes \cup {n}
    /\ network_formation_time' = None
    /\ new_joined_nodes' = {} /\ new_advertisers' = {} /\ pending' = {}
    /\ pc' = "loop"
    /\ call' = "rejoining_attempt"
    /\ target' = n
    /\ result' = None
    /\ rejoins' = rejoins + 1
    /\ alloc_since' =
          IF n \in cfg.ffds THEN [alloc_since EXCEPT ![n] = EmptyDict]
          ELSE alloc_since
    /\ fallback_at' = [m \in (DOMAIN fallback_at) \ {n} |-> fallback_at[m]]
    /\ eb_sources' = {}
    /\ last_capture_end' = None
    /\ sensed_cells' =
          IF n \in DOMAIN sensed_cells
          THEN [sensed_cells EXCEPT ![n] = << >>] ELSE sensed_cells
    /\ counted_advertisers' = {}
    /\ raised' = "none"
    /\ before_call' = Snapshot
    /\ first_subslot' = None
    /\ last_subslot' = None
    /\ UNCHANGED << lib_vars, mob_vars, cfg, time, has_the_execute_func_been_called, sync_asn,
                    EB_tx_counter, formation_asn, sensing_nodes, num_slots_sensed >>

\* rejoining_attempt is called, up to MaxRejoins times after an execute()
RejoiningAttempt(n, start_time_offset) ==
    /\ rejoins < MaxRejoins
    /\ Rejoin(n, start_time_offset)

\* rejoining_attempt is called once more
RejoiningAgain(n, start_time_offset) ==
    /\ rejoins = MaxRejoins
    /\ Rejoin(n, start_time_offset)

\* lines 278-279 run before the test of line 264
MsfAfterForeignCall_Resumed(start_time_offset) ==
    ResumePoint(time + start_time_offset)[1]

\* multislotframe_idx once line 265 has raised: lines 278-313 were not reached
MsfAfterForeignCall(start_time_offset) == multislotframe_idx

\* lines 259-265, for a node whose node_group is another group: ValueError
RejoiningAttemptForeign(start_time_offset) ==
    /\ pc = "idle"
    /\ has_the_execute_func_been_called
    /\ call' = "rejoining_attempt"
    /\ target' = None
    /\ raised' = "ValueError"
    /\ before_call' = Snapshot
    /\ multislotframe_idx' = MsfAfterForeignCall(start_time_offset)
    /\ UNCHANGED << lib_vars, mob_vars, cfg, time, has_the_execute_func_been_called,
                    allocated_ch_offset, joined_nodes, advertisers, unjoined_nodes,
                    sync_asn, EB_tx_counter, formation_asn, scan_start_time,
                    sensing_nodes, num_slots_sensed, loop_vars, start_time,
                    result, rejoins, hist_vars, first_subslot, last_subslot >>

Next ==
    \/ Construct
    \/ Execute
    \/ SubslotTx
    \/ \E n \in cfg.nodes : ScanNode(n)
    \/ SubslotEnd
    \/ NextAdvSlot
    \/ NextMultislotframe
    \/ \E n \in cfg.nodes, d \in RejoinOffsets : RejoiningAttempt(n, d)
    \/ \E d \in RejoinOffsets : RejoiningAttemptForeign(d)

Spec == Init /\ [][Next]_vars

\* a group with a mobile node, whose first move was defined when the node was
\* created, at network time 0 (Node.__init__, lines 102-105)
InitMobile ==
    /\ cfg \in {c \in MobileConfigurations : GroupValid(c)}
    /\ DriverInit
    /\ move \in new_move(initial_position, 0)
    /\ position = << >>
    /\ queried_at = None
    /\ LibInit

SpecMobile == InitMobile /\ [][Next]_vars

\* a new group, on which nodes and PAN coordinators are created
InitGroup ==
    /\ cfg = CHOOSE c \in Configurations : GroupValid(c)
    /\ DriverInit
    /\ move = NoMove
    /\ position = << >>
    /\ queried_at = None
    /\ LibInit

NextGroup ==
    \/ \E a \in NodeArgs, mac \in FreeMacs(group) : CreateNode(a, mac)
    \/ \E a \in NodeArgs, mac \in FreeMacs(group) : CreatePANCoordinator(a, mac)

SpecGroup == InitGroup /\ [][NextGroup]_vars

\* a dictionary of attributes, from which a TimeslotTemplate is made
InitTemplate ==
    /\ cfg = CHOOSE c \in Configurations : GroupValid(c)
    /\ DriverInit
    /\ move = NoMove
    /\ position = << >>
    /\ queried_at = None
    /\ GroupInit
    /\ attributes \in TemplateInputs
    /\ template = "none"
    /\ hop = NoHop
    /\ scenario = NoScenario
    /\ capture = NoCapture

NextTemplate == CreateTemplate

SpecTemplate == InitTemplate /\ [][NextTemplate]_vars

\* the simulators whose cells are followed: every method, one to three
\* channels, one or two slotframes per multi-slotframe, with and without ATP
HopConfigurations ==
    {c \in {[b EXCEPT !.num_channels = nc, !.ebi = e, !.atp_enabled = a] :
               b \in {x \in UNION {ConfigurationsOf(m) : m \in EBSchedulingMethod} :
                        /\ x.pan = 0 /\ x.boot_time = 0 /\ x.ebi = 1
                        /\ ~x.atp_enabled /\ x.num_channels = 1},
               nc \in 1..3, e \in 1..2, a \in BOOLEAN} :
        GroupValid(c) /\ Constructor(c) = "ok"}

MaxHopMsf == 2

InitHop ==
    /\ cfg \in HopConfigurations
    /\ DriverInit
    /\ move = NoMove
    /\ position = << >>
    /\ queried_at = None
    /\ LibInit

NextHop ==
    \E m \in 0..MaxHopMsf, idx \in 0..(TotalSubslots - 1),
       ch_offset \in 0..(cfg.num_channels - 1) : ChannelOfCell(m, idx, ch_offset)

SpecHop == InitHop /\ [][NextHop]_vars

\* a subslot in which EBs reach a scanning node
InitCapture ==
    /\ cfg = CHOOSE c \in Configurations : GroupValid(c)
    /\ DriverInit
    /\ move = NoMove
    /\ position = << >>
    /\ queried_at = None
    /\ GroupInit
    /\ TemplateInit
    /\ hop = NoHop
    /\ scenario \in Scenarios
    /\ capture = NoCapture

NextCapture == CapturedEb

SpecCapture == InitCapture /\ [][NextCapture]_vars

\* lines 529-530 once every node has joined: the loop of line 353 goes on
\* past the multi-slotframes followed, for the nodes that still sense
SensingMultislotframe ==
    /\ pc = "loop"
    /\ i >= NumAdvSlots
    /\ multislotframe_idx >= MsfLimit
    /\ unjoined_nodes = {}
    /\ starting_i' = 0
    /\ multislotframe_idx' = multislotframe_idx + 1
    /\ i' = 0
    /\ j' = starting_j
    /\ UNCHANGED << lib_vars, mob_vars, cfg, time, has_the_execute_func_been_called,
                    allocated_ch_offset, joined_nodes, advertisers, unjoined_nodes,
                    sync_asn, EB_tx_counter, formation_asn, scan_start_time,
                    sensing_nodes, num_slots_sensed, pc, starting_j,
                    network_formation_time, new_joined_nodes, new_advertisers,
                    pending, call, target, start_time, result, rejoins, hist_vars,
                    call_vars >>

\* a step of the loop of __run_simulation, which runs until it returns
LoopStep ==
    \/ SubslotTx
    \/ \E n \in cfg.nodes : ScanNode(n)
    \/ SubslotEnd
    \/ NextAdvSlot
    \/ NextMultislotframe
    \/ SensingMultislotframe

\* the groups under ECV and ECH, followed until the last sensor has its cell
InitSensing ==
    /\ cfg \in {c \in Configurations : GroupValid(c) /\ IsEC(c.method)}
    /\ DriverInit
    /\ move = NoMove
    /\ position = << >>
    /\ queried_at = None
    /\ LibInit

NextSensing ==
    \/ Construct
    \/ Execute
    \/ SubslotTx
    \/ \E n \in cfg.nodes : ScanNode(n)
    \/ SubslotEnd
    \/ NextAdvSlot
    \/ NextMultislotframe
    \/ SensingMultislotframe
    \/ \E n \in cfg.nodes, d \in RejoinOffsets : RejoiningAttempt(n, d)
    \/ \E d \in RejoinOffsets : RejoiningAttemptForeign(d)

SpecSensing == InitSensing /\ [][NextSensing]_vars /\ WF_vars(LoopStep)

\* the methods that compute the cell of a node from its id or its address
StaticMethods ==
    {"CFASV", "CFASH", "ECFASV", "ECFASH", "MAC_BASED_AS", "EMAC_BASED_AS"}

\* the groups under these methods that have an FFD besides the PAN
\* coordinator and more than one channel offset, with one more rejoining
\* attempt
InitRejoins ==
    /\ cfg \in {c \in Configurations :
                    /\ GroupValid(c)
                    /\ c.method \in StaticMethods
                    /\ c.ffds # {c.pan}
                    /\ c.num_channels > 1}
    /\ DriverInit
    /\ move = NoMove
    /\ position = << >>
    /\ queried_at = None
    /\ LibInit

NextRejoins ==
    \/ Construct
    \/ Execute
    \/ SubslotTx
    \/ \E n \in cfg.nodes : ScanNode(n)
    \/ SubslotEnd
    \/ NextAdvSlot
    \/ NextMultislotframe
    \/ \E n \in cfg.nodes, d \in RejoinOffsets : RejoiningAttempt(n, d)
    \/ \E n \in cfg.nodes, d \in RejoinOffsets : RejoiningAgain(n, d)
    \/ \E d \in RejoinOffsets : RejoiningAttemptForeign(d)

SpecRejoins == InitRejoins /\ [][NextRejoins]_vars

\* ================================================================ claims
\* execute() has returned and nothing was called since
ExecuteReturned == pc = "idle" /\ call = "execute"

\* rejoining_attempt() has returned and nothing was called since
RejoinReturned == pc = "idle" /\ call = "rejoining_attempt" /\ raised = "none"

\* C1: whenever execute() returns, unjoined_nodes is empty and every node of
\* the group is in joined_nodes.
C1_AllJoinedAtReturn ==
    ExecuteReturned => unjoined_nodes = {} /\ joined_nodes = cfg.nodes

\* C1 witness: execute() returned for a group of three nodes
C1_Witness ==
    /\ ExecuteReturned
    /\ Cardinality(cfg.nodes) = 3
    /\ joined_nodes = cfg.nodes

\* C2: once execute() has been called, at every subslot boundary of execute()
\* and rejoining_attempt(), joined_nodes and unjoined_nodes are disjoint and
\* cover the group, advertisers is a subset of joined_nodes, every advertiser
\* is an FFD, and only FFDs hold entries in the EB schedule.
C2_Membership ==
    (has_the_execute_func_been_called /\ pc \in {"idle", "loop"}) =>
        /\ joined_nodes \cap unjoined_nodes = {}
        /\ joined_nodes \cup unjoined_nodes = cfg.nodes
        /\ advertisers \subseteq joined_nodes
        /\ advertisers \subseteq cfg.ffds
        /\ DOMAIN allocated_ch_offset \subseteq cfg.ffds

\* C2 witness: a rejoining attempt of an FFD other than the PAN coordinator is
\* under way, next to an advertiser that is neither it nor the PAN coordinator
C2_Witness ==
    /\ call = "rejoining_attempt"
    /\ pc = "loop"
    /\ target \in cfg.ffds \ {cfg.pan}
    /\ unjoined_nodes = {target}
    /\ advertisers \ {cfg.pan} # {}

\* two distinct FFDs hold the same (advertisement subslot, channel offset) cell
ShareCell(a, b) ==
    \E s \in (DOMAIN allocated_ch_offset[a]) \cap (DOMAIN allocated_ch_offset[b]) :
        allocated_ch_offset[a][s] = allocated_ch_offset[b][s]

CollisionFreeMethods == {"CFASV", "CFASH", "ECFASV", "ECFASH"}

\* C3 (as claimed): for CFASV, CFASH, ECFASV and ECFASH, in every reachable
\* state no two distinct FFDs, the PAN coordinator included, hold the same
\* cell.
C3_InjectiveSchedule ==
    cfg.method \in CollisionFreeMethods =>
        \A a \in DOMAIN allocated_ch_offset, b \in DOMAIN allocated_ch_offset :
            a # b => ~ShareCell(a, b)

\* C4 (as claimed): for ECV and ECH, in every reachable state two advertisers
\* hold the same cell only if the random fallback gave both of them their cell
\* in the same subslot.
C4_SharedOnlyByFallback ==
    IsEC(cfg.method) =>
        \A a \in advertisers, b \in advertisers :
            (a # b /\ ShareCell(a, b)) =>
                /\ a \in DOMAIN fallback_at
                /\ b \in DOMAIN fallback_at
                /\ fallback_at[a] = fallback_at[b]

\* C5: an FFD that captures an EB in a subslot is not the source of a
\* candidate EB of any node scanning in that subslot, whatever the order of
\* the scanning nodes and wherever its new cell lies.
C5_NoEBFromNewAdvertiser == eb_sources \cap new_advertisers = {}

\* C5 witness: the subslot's captures are complete, a node heard an EB, two
\* nodes captured, and one of them is an FFD whose new cell lies on the
\* current subslot
C5_Witness ==
    /\ pc = "scan"
    /\ pending = {}
    /\ eb_sources # {}
    /\ Cardinality(new_joined_nodes) >= 2
    /\ \E a \in new_advertisers : adv_subslot_idx \in DOMAIN allocated_ch_offset[a]

\* C6: after execute() has returned, sync_asn is defined for every node,
\* is 0 for the PAN coordinator, and is nowhere later than formation_asn.
C6_SyncAsn ==
    ExecuteReturned =>
        /\ DOMAIN sync_asn = cfg.nodes
        /\ sync_asn[cfg.pan] = 0
        /\ \A n \in cfg.nodes : sync_asn[n] <= formation_asn

\* C6 witness: execute() returned and a node synchronised in the slot the
\* formation ended in, after the first slot
C6_Witness ==
    /\ ExecuteReturned
    /\ formation_asn > 0
    /\ \E n \in cfg.nodes \ {cfg.pan} : sync_asn[n] = formation_asn
    /\ \E n \in cfg.nodes \ {cfg.pan} : sync_asn[n] < formation_asn

\* the subslot of serial number s: its index in the multi-slotframe (line 360)
\* and the ASN of its slot (line 357)
SubslotIdxOf(s) == s % TotalSubslots

AsnOf(s) ==
    (s \div TotalSubslots) * num_slots_in_ms(cfg)
        + adv_slots_pos_in_ms(cfg)[(SubslotIdxOf(s) \div SubslotsPerSlot) + 1]

\* the subslots execute() has processed when it returns: it starts at the
\* first subslot of the first multi-slotframe and skips none
ProcessedSubslots == 0..Serial

\* C7 (as claimed): after execute() has returned, EB_tx_counter[n] of every
\* advertiser n is the number of processed subslots of ASN >= sync_asn[n] in
\* which n holds an allocation, the subslot of its synchronisation included.
C7_CounterFromSyncAsn ==
    ExecuteReturned =>
        \A n \in advertisers :
            EB_tx_counter[n] =
                Cardinality({s \in ProcessedSubslots :
                                /\ AsnOf(s) >= sync_asn[n]
                                /\ SubslotIdxOf(s) \in DOMAIN allocated_ch_offset[n]})

\* C7 (amended): after execute() has returned, EB_tx_counter[n] of every
\* advertiser n is the number of processed subslots on which a cell of n lies
\* and that come after the subslot in which n obtained that cell; the PAN
\* coordinator holds its cells from the start.
C7_CounterAfterAllocation ==
    ExecuteReturned =>
        \A n \in advertisers :
            /\ DOMAIN alloc_since[n] = DOMAIN allocated_ch_offset[n]
            /\ EB_tx_counter[n] =
                  Cardinality({s \in ProcessedSubslots :
                                  /\ SubslotIdxOf(s) \in DOMAIN alloc_since[n]
                                  /\ s > alloc_since[n][SubslotIdxOf(s)]})

\* C7 witness: execute() returned, an advertiser other than the PAN
\* coordinator has sent EBs, and another one obtained its cell without having
\* reached it again
C7_Witness ==
    /\ ExecuteReturned
    /\ \E n \in advertisers \ {cfg.pan} : EB_tx_counter[n] > 0
    /\ \E n \in advertisers \ {cfg.pan} :
          /\ EB_tx_counter[n] = 0
          /\ Serial \in {alloc_since[n][x] : x \in DOMAIN alloc_since[n]}

\* C8: the time execute() returns is the end of the subslot of the last
\* capture; it is not later than the network time at return, and equal to it
\* for the methods other than ECV and ECH.
C8_FormationTime ==
    ExecuteReturned =>
        /\ last_capture_end # None => result = last_capture_end
        /\ result <= time
        /\ ~IsEC(cfg.method) => result = time

\* C8 witness: execute() returned under ECV or ECH after sensing went on past
\* the subslot of the last capture
C8_Witness ==
    /\ ExecuteReturned
    /\ IsEC(cfg.method)
    /\ last_capture_end # None
    /\ result = last_capture_end
    /\ result < time

\* line 503 and lines 512-515: nobody is unjoined and, for ECV and ECH, no
\* sensing set holds a node
ConvergenceCondition ==
    /\ unjoined_nodes = {}
    /\ IsEC(cfg.method) => AllSensingSetsEmpty

\* C9 (as claimed): while the convergence condition holds the driver does not
\* go round its loop: it returns at the end of the next subslot it processes,
\* before any further multi-slotframe begins.
C9_ReturnsOnceConverged ==
    [][(pc = "loop" /\ ConvergenceCondition)
          => multislotframe_idx' = multislotframe_idx]_vars

\* C10 (as claimed): for a group of the PAN coordinator alone execute()
\* returns the PAN coordinator's boot_time and increments no EB_tx_counter.
C10_OnlyPanCoordinator ==
    (ExecuteReturned /\ cfg.nodes = {cfg.pan}) =>
        /\ result = BootTimeOf(cfg, cfg.pan)
        /\ EB_tx_counter[cfg.pan] = 0

\* C11: when rejoining_attempt(n, offset) has returned, n is joined again, it
\* is an advertiser with a non-empty schedule exactly if it is an FFD, nobody
\* is unjoined, and every other node is in joined_nodes and advertisers as
\* before the call and holds the cells it held before the call.
C11_RejoinFrame ==
    RejoinReturned =>
        /\ target \in joined_nodes
        /\ unjoined_nodes = {}
        /\ target \in cfg.ffds <=>
              /\ target \in advertisers
              /\ target \in DOMAIN allocated_ch_offset
              /\ allocated_ch_offset[target] # EmptyDict
        /\ \A m \in cfg.nodes \ {target} :
              /\ m \in joined_nodes <=> m \in before_call.joined_nodes
              /\ m \in advertisers <=> m \in before_call.advertisers
              /\ m \in cfg.ffds =>
                    allocated_ch_offset[m] = before_call.allocated_ch_offset[m]

\* C11 witness: the rejoining attempt of an FFD has returned in a group with
\* another advertiser besides the PAN coordinator, and the FFD holds another
\* cell than before
C11_Witness ==
    /\ RejoinReturned
    /\ target \in cfg.ffds \ {cfg.pan}
    /\ advertisers \ {cfg.pan, target} # {}
    /\ allocated_ch_offset[target] # before_call.allocated_ch_offset[target]

\* the start of subslot s on the driver's grid (lines 417-419)
SubslotStartOf(s) ==
    slot_0_start_time + AsnOf(s) * macTsTimeslotLength
        + (s % SubslotsPerSlot) * subslot_length(cfg)

\* a node that starts to listen at start can still receive the EB of subslot s:
\* the time elapsed in s is at most macTsTxOffset + macTsRxWait / 2
CanStillReceive(start, s) ==
    2 * (start - SubslotStartOf(s)) <= 2 * macTsTxOffset + macTsRxWait

\* the subslots of the multi-slotframes the driver is followed through, and
\* one more multi-slotframe
GridSubslots == 0..((MsfLimit + 2) * TotalSubslots - 1)

\* the first subslot of the driver's grid at or after start
NextSubslotAtOrAfter(start) ==
    CHOOSE s \in GridSubslots :
        /\ CanStillReceive(start, s)
        /\ \A t \in 0..(s - 1) : ~CanStillReceive(start, t)

\* C12 (as claimed): the first subslot a rejoining attempt processes is the
\* first advertisement subslot of the driver's grid at or after start; no
\* advertisement subslot between start and it is skipped.
C12_ResumesAtNextSubslot ==
    (call = "rejoining_attempt" /\ raised = "none" /\ first_subslot # None) =>
        first_subslot = NextSubslotAtOrAfter(start_time)

\* lines 325-346: rejoining_attempt returns a tuple, not joining_time alone
ReturnsTuple == IsEC(cfg.method) /\ target \in cfg.ffds

\* line 329, at the return of rejoining_attempt: network_formation_time is the
\* finish_time __run_simulation returned
eb_scheduling_delay == time - network_formation_time

\* C13: the joining_time rejoining_attempt returns is finish - start, with
\* finish the end of the subslot in which the node captured an EB again, and
\* is not negative; for an FFD under ECV or ECH it comes with an
\* eb_scheduling_delay that is not negative.
C13_JoiningTime ==
    RejoinReturned =>
        /\ network_formation_time = last_capture_end
        /\ result = network_formation_time - start_time
        /\ result >= 0
        /\ ReturnsTuple => eb_scheduling_delay >= 0
        /\ ~ReturnsTuple => eb_scheduling_delay = 0

\* C13 witness: the rejoining attempt of an FFD under ECV or ECH that began
\* after a positive offset has returned, the FFD having found its cell after
\* the subslot of its capture
C13_Witness ==
    /\ RejoinReturned
    /\ ReturnsTuple
    /\ start_time > before_call.time
    /\ result > 0
    /\ eb_scheduling_delay > 0

\* math.ceil(a / b) for b > 0 (lines 335 and 342)
PyCeil(a, b) == -((-a) \div b)

\* line 332
sensing_period_duration ==
    eb_scheduling_delay - multislotframe_length
        + (network_formation_time % multislotframe_length)

\* lines 334-344
num_adv_slots_sensed ==
    IF cfg.method = "ECV"
    THEN PyCeil(sensing_period_duration, multislotframe_length)
    ELSE PyCeil(sensing_period_duration,
                cfg.slotframe_length * macTsTimeslotLength)

\* C14 (as claimed): the num_adv_slots_sensed that rejoining_attempt returns
\* for an FFD under ECV or ECH is the number of cells the node sensed during
\* the call, the increase of num_slots_sensed[node].
C14_CellsSensed ==
    (RejoinReturned /\ ReturnsTuple) =>
        num_adv_slots_sensed =
            num_slots_sensed[target] - before_call.num_slots_sensed[target]

\* C15: after execute(), rejoining_attempt with a node of another group ends
\* with an error and leaves joined_nodes, advertisers, unjoined_nodes, the
\* allocations, scan_start_time, multislotframe_idx and the network time as
\* they were.
C15_ForeignNodeRejected ==
    (call = "rejoining_attempt" /\ raised # "none") =>
        /\ raised = "ValueError"
        /\ pc = "idle"
        /\ joined_nodes = before_call.joined_nodes
        /\ advertisers = before_call.advertisers
        /\ unjoined_nodes = before_call.unjoined_nodes
        /\ allocated_ch_offset = before_call.allocated_ch_offset
        /\ scan_start_time = before_call.scan_start_time
        /\ multislotframe_idx = before_call.multislotframe_idx
        /\ time = before_call.time

\* C15 witness: the call with the foreign node has failed on a formed network
\* of three nodes
C15_Witness ==
    /\ call = "rejoining_attempt"
    /\ raised = "ValueError"
    /\ joined_nodes = cfg.nodes
    /\ Cardinality(cfg.nodes) = 3

\* the constructor has run
Constructed == pc # "new"

\* the methods whose number of advertisement slots the constructor computes
BaseFamily == {"CFASV", "CFASH", "MAC_BASED_AS"}

EnhancedFamily == {"ECFASV", "ECFASH", "EMAC_BASED_AS"}

\* the divisor of R as the claim writes it
ClaimedDivisor ==
    IF cfg.method \in BaseFamily
    THEN cfg.num_channels * cfg.ebi * subslots_per_adv_slot(cfg)
    ELSE (cfg.num_channels - 1) * cfg.ebi * subslots_per_adv_slot(cfg)

\* the FFDs the claim's R places
ClaimedDividend ==
    IF cfg.method \in BaseFamily THEN Cardinality(cfg.ffds)
    ELSE Cardinality(cfg.ffds) - 1

\* R = ceil(ClaimedDividend / ClaimedDivisor): the least number of slots whose
\* cells suffice
ClaimedR ==
    CHOOSE r \in 0..ClaimedDividend :
        /\ r * ClaimedDivisor >= ClaimedDividend
        /\ \A q \in 0..(r - 1) : q * ClaimedDivisor < ClaimedDividend

\* the first R slots of each of the EBI slotframes, in ascending order
FirstSlotsOfEachSlotframe(pos) ==
    /\ Len(pos) = cfg.ebi * ClaimedR
    /\ {pos[k] : k \in 1..Len(pos)} =
          {f * cfg.slotframe_length + r :
              f \in 0..(cfg.ebi - 1), r \in 0..(ClaimedR - 1)}
    /\ \A k \in 1..(Len(pos) - 1) : pos[k] < pos[k + 1]

\* C16 (as claimed): for the (E)CFAS and MAC-based families, with valid
\* arguments and a non-zero divisor, the constructor rejects the configuration
\* exactly when R > slotframe_length, and the advertisement slots of an
\* accepted one are the first R slots of each slotframe.
C16_RejectedIffTooFewSlots ==
    (/\ Constructed
     /\ cfg.method \in BaseFamily \cup EnhancedFamily
     /\ ArgumentsValid(cfg)
     /\ ClaimedDivisor > 0) =>
        /\ pc = "failed" <=> ClaimedR > cfg.slotframe_length
        /\ pc # "failed" => FirstSlotsOfEachSlotframe(adv_slots_pos_in_ms(cfg))

\* C16 (amended): with valid arguments, a zero divisor ends the constructor
\* with ZeroDivisionError; otherwise the constructor raises the
\* number-of-slots error exactly when R > slotframe_length, any other
\* rejection is the node-IDs error of CFASV, CFASH, ECFASV and ECFASH, and the
\* advertisement slots of an accepted configuration are the first R slots of
\* each slotframe.
C16_SlotsCheck ==
    (/\ Constructed
     /\ cfg.method \in BaseFamily \cup EnhancedFamily
     /\ ArgumentsValid(cfg)) =>
        IF ClaimedDivisor = 0
        THEN pc = "failed" /\ raised = ZeroDivisionError
        ELSE /\ raised = NotValidSlots <=> ClaimedR > cfg.slotframe_length
             /\ (pc = "failed" /\ raised # NotValidSlots) =>
                   /\ raised = NotValidIds
                   /\ cfg.method \in {"CFASV", "CFASH", "ECFASV", "ECFASH"}
             /\ pc # "failed" =>
                   FirstSlotsOfEachSlotframe(adv_slots_pos_in_ms(cfg))

\* C16 witness: an enhanced configuration that needs two advertisement slots
\* per slotframe has been accepted
C16_Witness ==
    /\ pc = "idle"
    /\ call = "__init__"
    /\ cfg.method \in EnhancedFamily
    /\ ClaimedDivisor > 0
    /\ ClaimedR = 2

\* the modulus of the id check as the claim writes it
ClaimedModulus ==
    IF cfg.method \in {"CFASV", "CFASH"}
    THEN total_adv_subslots_in_ms(cfg) * cfg.num_channels
    ELSE total_adv_subslots_in_ms(cfg) * (cfg.num_channels - 1)

\* the FFDs the claim compares
ClaimedFFDs ==
    IF cfg.method \in {"CFASV", "CFASH"} THEN cfg.ffds
    ELSE cfg.ffds \ {cfg.pan}

\* C17: with valid arguments and R <= slotframe_length, CFASV and CFASH reject
\* the configuration exactly when two distinct FFDs, PAN coordinator included,
\* have ids congruent modulo total_adv_subslots * num_channels, and ECFASV and
\* ECFASH exactly when two distinct FFDs other than the PAN coordinator have
\* ids congruent modulo total_adv_subslots * (num_channels - 1).
C17_IdCheck ==
    (/\ Constructed
     /\ cfg.method \in {"CFASV", "CFASH", "ECFASV", "ECFASH"}
     /\ ArgumentsValid(cfg)
     /\ ClaimedDivisor > 0
     /\ ClaimedR <= cfg.slotframe_length) =>
        (pc = "failed" <=>
            \E a, b \in ClaimedFFDs :
                a # b /\ a % ClaimedModulus = b % ClaimedModulus)

\* C17 witness: an enhanced configuration with enough slots has been rejected
\* for two FFDs other than the PAN coordinator
C17_Witness ==
    /\ pc = "failed"
    /\ cfg.method \in {"ECFASV", "ECFASH"}
    /\ raised = NotValidIds
    /\ ClaimedR <= cfg.slotframe_length
    /\ Cardinality(ClaimedFFDs) >= 2

\* C18: under the enhanced methods, once execute() has scheduled the PAN
\* coordinator, it holds channel offset 0 on every advertisement subslot, and
\* every cell of another node has a channel offset in [1, num_channels - 1].
C18_OffsetZeroIsThePanCoordinators ==
    (IsEnhanced(cfg.method) /\ has_the_execute_func_been_called) =>
        /\ \A s \in 0..(TotalSubslots - 1) :
              /\ s \in DOMAIN allocated_ch_offset[cfg.pan]
              /\ allocated_ch_offset[cfg.pan][s] = 0
        /\ \A n \in cfg.ffds \ {cfg.pan} :
              \A s \in DOMAIN allocated_ch_offset[n] :
                  allocated_ch_offset[n][s] \in 1..(cfg.num_channels - 1)

\* C19: under Minimal6TiSCH every advertiser holds exactly one advertisement
\* cell, of channel offset 0 and of a slot index in
\* [0, num_adv_slots_in_ms - 1], the PAN coordinator's being slot index 0; an
\* FFD whose rejoining_attempt has returned holds exactly one cell.
C19_OneCellPerAdvertiser ==
    (cfg.method = "Minimal6TiSCH" /\ has_the_execute_func_been_called) =>
        /\ \A n \in advertisers :
              /\ Cardinality(DOMAIN allocated_ch_offset[n]) = 1
              /\ \A s \in DOMAIN allocated_ch_offset[n] :
                    /\ allocated_ch_offset[n][s] = 0
                    /\ s \in 0..(NumAdvSlots - 1)
                    /\ n = cfg.pan => s = 0
        /\ (RejoinReturned /\ target \in cfg.ffds) =>
              Cardinality(DOMAIN allocated_ch_offset[target]) = 1

\* the same without the PAN coordinator's slot index: this much holds
C19_OneCellAnySlot ==
    (cfg.method = "Minimal6TiSCH" /\ has_the_execute_func_been_called) =>
        /\ \A n \in advertisers :
              /\ Cardinality(DOMAIN allocated_ch_offset[n]) = 1
              /\ \A s \in DOMAIN allocated_ch_offset[n] :
                    /\ allocated_ch_offset[n][s] = 0
                    /\ s \in 0..(NumAdvSlots - 1)
        /\ (RejoinReturned /\ target \in cfg.ffds) =>
              Cardinality(DOMAIN allocated_ch_offset[target]) = 1

\* the k-th cell (k = 0, 1, ...) of the column-major enumeration for ECV and
\* of the row-major enumeration for ECH, over subslots 0..T-1 and offsets
\* 1..C-1
EnumeratedCell(k) ==
    IF cfg.method = "ECV"
    THEN << k \div (cfg.num_channels - 1), 1 + (k % (cfg.num_channels - 1)) >>
    ELSE << k % TotalSubslots, 1 + (k \div TotalSubslots) >>

\* the number of cells of the enumeration
NumEnumeratedCells == TotalSubslots * (cfg.num_channels - 1)

C21_TimeNeverDecreases == [][time' >= time]_vars

\* C22: every position Node.position returns for a mobile node lies within
\* [0, width] x [0, height]; once the node has booted it is a point of the
\* segment between the start and the end position of the current move.
C22_PositionInArea ==
    position # << >> =>
        /\ position[1] \in 0..area_dimensions[1]
        /\ position[2] \in 0..area_dimensions[2]
        /\ IF BootTimeOf(cfg, cfg.mobile) > queried_at
           THEN position = initial_position
           ELSE /\ DistanceCovered(move, queried_at) \in 0..total_distance(move)
                /\ position = PointOfMove(move, queried_at)

\* the nodes of the group that were created as PAN coordinators
PanCoordinatorsIn(g) ==
    {k \in 1..Len(g.nodes) : g.nodes[k].class = "PANCoordinator"}

\* C23: after any sequence of Node and PANCoordinator creation attempts the
\* group holds at most one PAN coordinator, the registered one, which is an
\* FFD, is not mobile and is in the list of nodes; a PANCoordinator creation
\* on a group that has one is rejected and leaves the list of nodes, the FFD
\* count and the registered PAN coordinator as they were.
C23_AtMostOnePanCoordinator ==
    /\ Cardinality(PanCoordinatorsIn(group)) <= 1
    /\ IF group.pan_coordinator = None
       THEN PanCoordinatorsIn(group) = {}
       ELSE /\ PanCoordinatorsIn(group) = {group.pan_coordinator}
            /\ group.nodes[group.pan_coordinator].type = "FFD"
            /\ ~group.nodes[group.pan_coordinator].is_mobile
    /\ (attempt.kind = "PANCoordinator" /\ attempt.before.pan_coordinator # None)
          => /\ attempt.raised = "PANCoordinatorCreationError"
             /\ group.nodes = attempt.before.nodes
             /\ group.num_ffds = attempt.before.num_ffds
             /\ group.pan_coordinator = attempt.before.pan_coordinator

\* a second PAN coordinator was asked for, with valid arguments and a new id,
\* on a group that held a PAN coordinator and another node
C23_Witness ==
    /\ attempt.kind = "PANCoordinator"
    /\ attempt.before.pan_coordinator # None
    /\ attempt.valid
    /\ ~IdInGroup(attempt.before, attempt.id)
    /\ Len(group.nodes) = 2
    /\ attempt.raised = "PANCoordinatorCreationError"

\* the FFDs among the nodes of the group
FFDsIn(g) == {k \in 1..Len(g.nodes) : g.nodes[k].type = "FFD"}

\* C24: after any sequence of creation attempts the nodes of the group have
\* pairwise distinct ids and num_ffds is the number of its FFDs; a Node
\* creation with an id of the group, or with invalid arguments, is rejected
\* and leaves the list of nodes, num_ffds and the MAC addresses in use as they
\* were.
C24_DistinctIdsAndFfdCount ==
    /\ \A k, l \in 1..Len(group.nodes) :
          group.nodes[k].id = group.nodes[l].id => k = l
    /\ group.num_ffds = Cardinality(FFDsIn(group))
    /\ (attempt.kind = "Node"
           /\ (IdInGroup(attempt.before, attempt.id) \/ ~attempt.valid))
          => /\ attempt.raised = "NotValidNodeConfigError"
             /\ group.nodes = attempt.before.nodes
             /\ group.num_ffds = attempt.before.num_ffds
             /\ group.macs_in_use = attempt.before.macs_in_use

\* a Node was asked for with valid arguments and the id of a node of the
\* group, which holds an FFD and is not full
C24_Witness ==
    /\ attempt.kind = "Node"
    /\ attempt.valid
    /\ IdInGroup(attempt.before, attempt.id)
    /\ Len(group.nodes) = 1
    /\ group.num_ffds = 1
    /\ attempt.raised = "NotValidNodeConfigError"

\* the twelve attributes are integers of 0..65535 and the seven relations
\* hold, in half microseconds
AttributesAsClaimed(a) ==
    LET v == a.values
    IN  /\ a.as_float = "none"
        /\ \A n \in AttributeNames : v[n] \in 0..65535
        /\ v["macTsTxOffset"] = v["macTsCcaOffset"] + v["macTsCca"] + v["macTsRxTx"]
        /\ 2 * v["macTsTxOffset"] = 2 * v["macTsRxOffset"] + v["macTsRxWait"]
        /\ v["macTsRxAckDelay"] <= v["macTsTxAckDelay"]
        /\ v["macTsTxAckDelay"] < v["macTsRxAckDelay"] + v["macTsAckWait"]
        /\ v["macTsTxOffset"] + v["macTsMaxTx"] + v["macTsRxAckDelay"]
              + v["macTsAckWait"] <= v["macTsTimeslotLength"]
        /\ v["macTsTxOffset"] + v["macTsMaxTx"] + v["macTsTxAckDelay"]
              + v["macTsMaxAck"] <= v["macTsTimeslotLength"]
        /\ v["macTsRxOffset"] + v["macTsRxWait"] + v["macTsMaxTx"]
              + v["macTsTxAckDelay"] + v["macTsMaxAck"]
              <= v["macTsTimeslotLength"] + v["macTsCcaOffset"]
        /\ v["macTsRxWait"]
              <= 2 * (v["macTsRxOffset"] + v["macTsTimeslotLength"]
                      - v["macTsTxOffset"] - v["macTsMaxTx"]
                      - v["macTsTxAckDelay"] - v["macTsMaxAck"])

\* C25 as stated: the construction of a TimeslotTemplate succeeds if and only
\* if each of the twelve attributes is an integer of 0..65535 and the seven
\* timing relations hold.
C25_SucceedsIffAttributesValid ==
    template # "none" => (template = "ok" <=> AttributesAsClaimed(attributes))

\* C25, amended: the construction succeeds if and only if the dictionary has
\* no more than twelve entries, each of the twelve attributes is an integer
\* of 0..65535 and the seven timing relations hold.
C25_SucceedsIffTwelveValidAttributes ==
    template # "none"
       => (template = "ok"
             <=> attributes.unknown = 0 /\ AttributesAsClaimed(attributes))

\* a template was made from attributes that are neither the default ones nor
\* the tight ones
C25_Witness ==
    /\ template = "ok"
    /\ attributes.values \notin {DefaultAttributes, TightAttributes}

\* the slotframe of the multi-slotframe that holds an advertisement subslot
SlotframeOf(c, idx) ==
    adv_slots_pos_in_ms(c)[(idx \div subslots_per_adv_slot(c)) + 1]
        \div c.slotframe_length

\* the place of an advertisement subslot, from 0, among the advertisement
\* subslots of its slotframe
PositionInSlotframe(c, idx) ==
    Cardinality({k \in 0..(idx - 1) : SlotframeOf(c, k) = SlotframeOf(c, idx)})

\* C26: the channel of a cell is (ASN + channel offset) mod num_channels with
\* one subslot per advertisement slot and (ASN + ssn + channel offset) mod
\* num_channels otherwise, ssn being the place of the subslot, from 0, among
\* the advertisement subslots of its slotframe; the other channel offsets of
\* 0..num_channels-1 give other channels in the same subslot.
C26_ChannelOfCell ==
    hop # NoHop =>
       /\ hop.channel
            = IF subslots_per_adv_slot(cfg) = 1
              THEN (hop.asn + hop.ch_offset) % cfg.num_channels
              ELSE (hop.asn + PositionInSlotframe(cfg, hop.adv_subslot_idx)
                      + hop.ch_offset) % cfg.num_channels
       /\ \A other \in 0..(cfg.num_channels - 1) :
             other # hop.ch_offset
                => channel_calculation(cfg, other, hop.asn, hop.ssn) # hop.channel

\* the channel of a cell of the second slotframe of a multi-slotframe with two
\* subslots per slot, in a subslot that is not the first of the slotframe, on
\* an offset other than 0, after the first multi-slotframe
C26_Witness ==
    /\ hop # NoHop
    /\ subslots_per_adv_slot(cfg) > 1
    /\ cfg.num_channels = 3
    /\ SlotframeOf(cfg, hop.adv_subslot_idx) = 1
    /\ hop.ssn = 1
    /\ hop.ch_offset = 2
    /\ hop.multislotframe_idx = 1

\* the three conditions on an EB that reaches the scanning node of a call:
\* the node has booted when the reception starts; the channel it listens to
\* at the drift-adjusted arrival is the EB's channel; what remains of the
\* stay on that channel at the arrival exceeds the transmission time of an EB
Receivable(sc, eb) ==
    LET arrival == eb.rx_start_time + (eb.rx_start_time * sc.drift) \div 1000000
        since == arrival - (sc.boot_time + sc.scan_offset)
        period == sc.scan_duration + sc.channel_switching_time
        hopped == IF sc.ssn = None
                  THEN (sc.asn + eb.tx_channel_offset) % sc.num_channels
                  ELSE (sc.asn + sc.ssn + eb.tx_channel_offset) % sc.num_channels
    IN  /\ eb.rx_start_time >= sc.boot_time
        /\ (since \div period) % sc.num_channels = hopped
        /\ sc.scan_duration - (since % period) > t_eb_ns

\* C27: an EB returned by the capture decision started to arrive when the
\* node had booted, on the channel the node listened to at the drift-adjusted
\* arrival, with more than one EB transmission time left on that channel; a
\* candidate that fails one of these is never the captured EB and, once it
\* is examined, is among the interfering EBs.
C27_ReturnedEbIsReceivable ==
    capture # NoCapture =>
       LET ebs == SortedByRxStart(scenario.candidate_ebs)
       IN  /\ capture.captured_eb # 0
                => Receivable(scenario, ebs[capture.captured_eb])
           /\ \A k \in 1..Len(ebs) :
                 ~Receivable(scenario, ebs[k])
                    => /\ k \notin capture.held
                       /\ k # capture.captured_eb
                       /\ k <= capture.seen => k \in capture.added

\* the second of two candidates is returned, with a drifting clock, after
\* the node changed channel, and the first one, not receivable, interferes
C27_Witness ==
    /\ capture.captured_eb = 2
    /\ scenario.drift # 0
    /\ scenario.num_channels = 2
    /\ 1 \in capture.added
    /\ ~Receivable(scenario, SortedByRxStart(scenario.candidate_ebs)[1])
    /\ SortedByRxStart(scenario.candidate_ebs)[2].rx_start_time = 2200000

\* C28: the constructor succeeds or raises the configuration error; under an
\* enhanced method with one channel it raises the configuration error when
\* the group holds an FFD beside the PAN coordinator and succeeds when it
\* holds none; nothing else is raised by execute() or by rejoining_attempt()
\* for a node of the group.
C28_OnlyConfigurationErrors ==
    Constructed =>
       /\ raised # "ValueError"
             => raised \in {"none", NotValidArguments, NotValidSlots, NotValidIds}
       /\ (IsEnhanced(cfg.method) /\ cfg.num_channels = 1) =>
             IF cfg.ffds # {cfg.pan}
             THEN pc = "failed" /\ raised = NotValidArguments
             ELSE pc # "failed"

\* the driver runs the transmissions and the sensing of a subslot
SensingPassStep == pc = "loop" /\ pc' = "scan"

\* C29: under ECV and ECH the pass over a subslot senses at most one cell for
\* each sensing node: num_slots_sensed grows by at most 1, the node that
\* found its cell busy waits in the set of its next cell, which is not
\* evaluated for it in that pass, also when it is a cell of the same subslot.
C29_OneCellPerPass ==
    [][SensingPassStep =>
          \A n \in DOMAIN num_slots_sensed :
             /\ num_slots_sensed'[n] <= num_slots_sensed[n] + 1
             /\ Len(sensed_cells'[n]) <= Len(sensed_cells[n]) + 1
             /\ n \in SensingNow =>
                   LET sensed == sensed_cells'[n][Len(sensed_cells'[n])]
                   IN  /\ num_slots_sensed'[n] = num_slots_sensed[n] + 1
                       /\ sensed.cell = <<adv_subslot_idx, SensedChOffset(n)>>
                       /\ (sensed.busy /\ ~IsLastCell(cfg, sensed.cell[1], sensed.cell[2]))
                             => n \in sensing_nodes'[NextCell(cfg, sensed.cell[1],
                                                              sensed.cell[2])]]_vars

\* a node found a cell busy and waits to sense the next cell, a cell of the
\* same subslot
C29_Witness ==
    \E n \in DOMAIN sensed_cells :
       /\ sensed_cells[n] # << >>
       /\ LET sensed == sensed_cells[n][Len(sensed_cells[n])]
          IN  /\ sensed.busy
              /\ pc = "scan"
              /\ sensed.cell[1] = adv_subslot_idx
              /\ <<adv_subslot_idx, sensed.cell[2] + 1>> \in DOMAIN sensing_nodes
              /\ n \in sensing_nodes[<<adv_subslot_idx, sensed.cell[2] + 1>>]
              /\ num_slots_sensed[n] = Len(sensed_cells[n])

\* the driver moves on to the next advertisement slot or multi-slotframe
LoopAdvances == pc = "loop" /\ pc' = "loop"

\* C30: in a run the driver processes the advertisement subslots in the
\* order of (multislotframe_idx, i, j), each one the successor of the one
\* before, from subslot 0 of multi-slotframe 0 in execute() and from the
\* resumed subslot in rejoining_attempt() (from the first subslot of the next
\* multi-slotframe when the run is given a slot past the last advertisement
\* slot); moving to the next advertisement slot or multi-slotframe passes
\* over no subslot, multislotframe_idx grows by exactly 1 and only after the
\* last advertisement slot, and the ASN of the processed subslots never
\* decreases.
C30_SubslotsInOrder ==
    [][/\ SensingPassStep =>
            /\ i \in 0..(NumAdvSlots - 1)
            /\ j \in 0..(SubslotsPerSlot - 1)
            /\ last_subslot # None =>
                  /\ Serial = last_subslot + 1
                  /\ asn >= AsnOf(last_subslot)
       /\ (pc = "scan" /\ pc' = "loop") => Serial' = Serial + 1
       /\ LoopAdvances =>
            /\ i <= NumAdvSlots => Serial' = Serial
            /\ i > NumAdvSlots => last_subslot = None
            /\ multislotframe_idx' # multislotframe_idx =>
                  /\ i >= NumAdvSlots
                  /\ multislotframe_idx' = multislotframe_idx + 1
                  /\ i' = 0
                  /\ j' = 0
       /\ (pc = "idle" /\ pc' = "loop" /\ call' = "execute") => Serial' = 0]_vars

\* a run that resumed at the second subslot of an advertisement slot has
\* processed it, the subslots that follow and the first subslot of the next
\* multi-slotframe
C30_Witness ==
    /\ call = "rejoining_attempt"
    /\ first_subslot # None
    /\ first_subslot % TotalSubslots = 1
    /\ SubslotsPerSlot = 2
    /\ last_subslot >= first_subslot + 1
    /\ last_subslot % TotalSubslots = 0
    /\ pc = "scan"

\* C31: a call of rejoining_attempt, from its first line to its return, leaves
\* sync_asn and formation_asn as they were; the scan start times, the cells
\* and the counters of the nodes other than its target are not reset, and the
\* counter of the target is set to 0 when the target is an FFD.
C31_RejoinKeepsAsns ==
    [][call' = "rejoining_attempt" =>
          /\ sync_asn' = sync_asn
          /\ formation_asn' = formation_asn
          /\ \A m \in DOMAIN scan_start_time :
                m # target' => scan_start_time'[m] = scan_start_time[m]
          /\ \A m \in DOMAIN allocated_ch_offset :
                m # target' => allocated_ch_offset'[m] = allocated_ch_offset[m]
          /\ \A m \in DOMAIN EB_tx_counter :
                \/ EB_tx_counter'[m] >= EB_tx_counter[m]
                \/ m = target' /\ m \in cfg.ffds /\ EB_tx_counter'[m] = 0]_vars

\* C31 witness: the rejoining attempt of an FFD other than the PAN coordinator
\* has returned; the FFD captured the EB in a later slot than the slot of its
\* first synchronization and than the slot in which the network was formed,
\* and it had sent an EB before the call
C31_Witness ==
    /\ RejoinReturned
    /\ target \in cfg.ffds \ {cfg.pan}
    /\ sync_asn[target] < asn
    /\ formation_asn < asn
    /\ scan_start_time[target] # before_call.scan_start_time[target]
    /\ before_call.allocated_ch_offset[target] # EmptyDict

\* C32 (as claimed): in every subslot the advertisers whose EB is a candidate
\* for a scanning node are among those whose EB_tx_counter grew at the start
\* of the subslot.
C32_NoUncountedEB == pc = "scan" => eb_sources \subseteq counted_advertisers

\* the sensing sets a node is a member of
SensingSetsOf(n) == {cell \in DOMAIN sensing_nodes : n \in sensing_nodes[cell]}

\* C33: under ECV and ECH, at every subslot boundary a joined FFD other than
\* the PAN coordinator is in exactly one sensing set and holds no cell, or is
\* in no sensing set and holds exactly one cell (so the copy of
\* sensing_nodes_new drops no sensing node and replaces no set that holds a
\* node), and no unjoined node is in a sensing set.
C33_SensingOrAllocated ==
    (IsEC(cfg.method) /\ has_the_execute_func_been_called
        /\ pc \in {"loop", "idle"}) =>
        /\ \A n \in (joined_nodes \cap cfg.ffds) \ {cfg.pan} :
              \/ /\ Cardinality(SensingSetsOf(n)) = 1
                 /\ allocated_ch_offset[n] = EmptyDict
              \/ /\ SensingSetsOf(n) = {}
                 /\ Cardinality(DOMAIN allocated_ch_offset[n]) = 1
        /\ \A n \in unjoined_nodes : SensingSetsOf(n) = {}

\* C33 witness: under ECV with three channels a joined FFD that sensed a cell
\* busy waits in the set of the next cell of the same subslot, copied from
\* sensing_nodes_new, while another FFD holds the cell it claimed
C33_Witness ==
    /\ cfg.method = "ECV"
    /\ cfg.num_channels = 3
    /\ pc = "loop"
    /\ \E n, m \in (joined_nodes \cap cfg.ffds) \ {cfg.pan} :
          /\ n # m
          /\ SensingSetsOf(n) = {<<0, 2>>}
          /\ allocated_ch_offset[n] = EmptyDict
          /\ SensingSetsOf(m) = {}
          /\ Cardinality(DOMAIN allocated_ch_offset[m]) = 1

\* the cells of the walk of a sensing node
WalkLength == TotalSubslots * (cfg.num_channels - 1)

\* the joined FFDs that sense, or have sensed, for a cell
Sensors == (DOMAIN sensed_cells) \ {cfg.pan}

\* C34: under ECV and ECH a node that became a sensor has sensed at most
\* total_adv_subslots * (num_channels - 1) cells since then, fewer while it is
\* still in a sensing set, and holds a cell when the call returns; once no
\* node is unjoined the call returns.
C34_SensorsAreAllocated ==
    /\ [](\A n \in Sensors :
             /\ Len(sensed_cells[n]) <= WalkLength
             /\ (pc = "loop" /\ SensingSetsOf(n) # {})
                   => Len(sensed_cells[n]) < WalkLength
             /\ (pc = "idle" /\ n \in advertisers)
                   => allocated_ch_offset[n] # EmptyDict)
    /\ (pc \in {"loop", "scan"} /\ unjoined_nodes = {}) ~> (pc = "idle")

\* C34 witness: a call has returned in a multi-slotframe after the last one in
\* which nodes are followed while they join, and an FFD was given its cell
\* after it had sensed every cell of a walk of more than one cell
C34_Witness ==
    /\ pc = "idle"
    /\ multislotframe_idx > MsfLimit
    /\ WalkLength > 1
    /\ \E n \in Sensors :
          /\ Len(sensed_cells[n]) = WalkLength
          /\ allocated_ch_offset[n] # EmptyDict

\* C35 (as claimed): the reception of an EB returned by the capture decision
\* started at or after the time the node began to scan.
C35_CapturedAfterScanStart ==
    capture.captured_eb # 0 =>
       SortedByRxStart(scenario.candidate_ebs)[capture.captured_eb].rx_start_time
          >= ScanStartOf(scenario)

\* line 361
ssn_of_subslot == IF SubslotsPerSlot > 1 THEN ssn(cfg)[adv_subslot_idx + 1] ELSE None

\* the channel on which an advertiser transmits in the current subslot
\* (lines 460 and 777)
TxChannel(a) ==
    channel_calculation(cfg, allocated_ch_offset[a][adv_subslot_idx], asn,
                        ssn_of_subslot)

\* C36 (as claimed): under CFASV, CFASH, ECFASV and ECFASH no two advertisers
\* transmit their EB on the same channel in a processed subslot.
C36_OneAdvertiserPerChannel ==
    (cfg.method \in CollisionFreeMethods /\ pc = "scan") =>
        \A a, b \in TransmittingAdvertisers : a # b => TxChannel(a) # TxChannel(b)

\* C37 (as claimed): a simulator that the constructor accepted has at least
\* one advertisement slot in the multi-slotframe and at least one subslot in
\* an advertisement slot.
C37_GridNotEmpty ==
    (Constructed /\ pc # "failed") =>
        /\ NumAdvSlots >= 1
        /\ SubslotsPerSlot >= 1
        /\ TotalSubslots >= 1

\* C38 (as claimed): when the capture decision ends, every candidate that
\* was processed and is not the captured EB has been given to
\* add_interfering_eb, also the candidate that arrived while another EB was
\* captured and did not break the capture.
C38_ProcessedCandidatesInterfere ==
    capture # NoCapture =>
        \A k \in 1..capture.seen : k # capture.captured_eb => k \in capture.added

\* the nodes over which __total_energy_consumption sums (lines 551-556)
AccountedNodes ==
    IF IsEnhanced(cfg.method) THEN cfg.nodes \ {cfg.pan} ELSE cfg.nodes

\* lines 561 and 564
idle_slots(n) ==
    formation_asn - sync_asn[n]
        - (IF n \in DOMAIN EB_tx_counter THEN EB_tx_counter[n] ELSE 0)

\* C39 (as claimed): when execute() has returned, the number of idle slots of
\* the energy model is not negative for any node it accounts.
C39_IdleSlotsNotNegative ==
    ExecuteReturned => \A n \in AccountedNodes : idle_slots(n) >= 0

\* C40: under CFASV, CFASH, ECFASV, ECFASH, MAC_BASED_AS and EMAC_BASED_AS,
\* when the rejoining attempt of an FFD other than the PAN coordinator has
\* returned, the FFD holds the one cell it held before the call, whatever the
\* offset and also when the call follows another rejoining attempt.
C40_RejoinRestoresCell ==
    (RejoinReturned /\ cfg.method \in StaticMethods
        /\ target \in cfg.ffds \ {cfg.pan}) =>
        /\ allocated_ch_offset[target] = before_call.allocated_ch_offset[target]
        /\ Cardinality(DOMAIN allocated_ch_offset[target]) = 1

\* C40 witness: a second rejoining attempt, of an FFD other than the PAN
\* coordinator in a group of three FFDs with more than one advertisement
\* subslot, has returned in a later multi-slotframe than it was called in
C40_Witness ==
    /\ RejoinReturned
    /\ rejoins > MaxRejoins
    /\ target \in cfg.ffds \ {cfg.pan}
    /\ Cardinality(cfg.ffds) = 3
    /\ TotalSubslots > 1
    /\ before_call.allocated_ch_offset[target] # EmptyDict
    /\ multislotframe_idx > before_call.multislotframe_idx
====
